---- MODULE Spec2Model ----
(***************************************************************************)
(* Rating calculation engine of wc_report_rating.                          *)
(*                                                                         *)
(* Percentages are Python floats in the source.  Here every percentage is  *)
(* an integer number of hundredths of a percent (12.34% is 1234), so that  *)
(* round(x, 2) is a rounding to the nearest integer.  Arithmetic is exact; *)
(* the binary representation error of the floats (about 1e-14) is not      *)
(* modelled, and the input domains are chosen so that the exact result     *)
(* and the float result round to the same hundredth.                       *)
(*                                                                         *)
(* Python text is a sequence of one-character strings.                     *)
(***************************************************************************)
EXTENDS Integers, Sequences, FiniteSets, TLC

VARIABLES
    fn,            \* the function that is called
    pc,            \* "call" before the function has run, "return" after
    wpi_values,    \* argument of combine_wpi_values
    combined,      \* its return value
    total_pd,      \* argument of calculate_payment_weeks
    weeks,         \* its return value
    data,          \* argument of process_extracted_data
    outcome,       \* what it does: the dictionary it returns or the exception it raises
    no_apportionment_details,  \* its local of that name when it returns
    args,          \* arguments of a database lookup or of calculate_rating;
                   \* outcome then holds what that call does
    connection,    \* the SQLite connection of a lookup when the lookup exits:
                   \* "none" (never opened), "open" or "closed"
    db,            \* the database file and the sessions that run init_database
    report         \* the run of process_medical_reports: its locals, the files
                   \* on disk and at OpenAI, the progress values reported

vars == <<fn, pc, wpi_values, combined, total_pd, weeks, data, outcome,
          no_apportionment_details, args, connection, db, report>>

----------------------------------------------------------------------------
(* Bounds of the model *)

\* longest list handed to combine_wpi_values
MaxLen == 3
\* largest percentage handed to calculate_payment_weeks, in hundredths
MaxPd == 10000
\* distance between two neighbouring percentages of WpiDomain, in hundredths
WpiStep == 667
\* largest number of impairments of a batch
MaxImpairments == 2
\* largest age handed to get_age_adjusted_wpi
MaxAge == 151
\* largest number of impairments of the two extractions handed to
\* merge_impairments, taken together
MaxExtracted == 3
\* largest number of files uploaded to process_medical_reports
MaxFiles == 2
\* number of sessions that run init_database
MaxSessions == 2
\* number of rows of a CSV file
CsvRows == 2

\* the percentages combine_wpi_values is called with: 0%, 6.67%, 13.34%, ...
\* and 100%
WpiDomain == {k * WpiStep : k \in 0..(10000 \div WpiStep)} \cup {10000}

----------------------------------------------------------------------------
(* Numbers *)

Max(a, b) == IF a >= b THEN a ELSE b
Min(a, b) == IF a <= b THEN a ELSE b

\* Python round(): n/d to the nearest integer, a tie to the even neighbour
RoundHalfEven(n, d) ==
    LET q == n \div d
        r == n % d
    IN  IF 2 * r < d THEN q
        ELSE IF 2 * r > d THEN q + 1
        ELSE IF q % 2 = 0 THEN q ELSE q + 1

\* None / a value, for the Python fields that are a value or None
None == <<>>
Some(x) == <<x>>

----------------------------------------------------------------------------
(* Python text *)

UpperLetters == <<"A", "B", "C", "D", "E", "F", "G", "H", "I", "J", "K", "L", "M",
                  "N", "O", "P", "Q", "R", "S", "T", "U", "V", "W", "X", "Y", "Z">>
LowerLetters == <<"a", "b", "c", "d", "e", "f", "g", "h", "i", "j", "k", "l", "m",
                  "n", "o", "p", "q", "r", "s", "t", "u", "v", "w", "x", "y", "z">>
Digits == <<"0", "1", "2", "3", "4", "5", "6", "7", "8", "9">>

IndexIn(seq, c) == CHOOSE i \in DOMAIN seq : seq[i] = c
Occurs(seq, c) == \E i \in DOMAIN seq : seq[i] = c

LowerChar(c) == IF Occurs(UpperLetters, c) THEN LowerLetters[IndexIn(UpperLetters, c)] ELSE c
UpperChar(c) == IF Occurs(LowerLetters, c) THEN UpperLetters[IndexIn(LowerLetters, c)] ELSE c

\* str.lower(), str.upper()
RECURSIVE Lower(_)
Lower(s) == IF s = <<>> THEN <<>> ELSE <<LowerChar(Head(s))>> \o Lower(Tail(s))

RECURSIVE Upper(_)
Upper(s) == IF s = <<>> THEN <<>> ELSE <<UpperChar(Head(s))>> \o Upper(Tail(s))

\* str.isdigit(), str.isalpha()
IsDigit(s) == s # <<>> /\ \A i \in DOMAIN s : Occurs(Digits, s[i])
IsAlpha(s) == s # <<>> /\ \A i \in DOMAIN s : Occurs(UpperLetters, s[i]) \/ Occurs(LowerLetters, s[i])

\* int(s) for a text of digits
RECURSIVE ToInt(_)
ToInt(s) ==
    IF s = <<>> THEN 0
    ELSE 10 * ToInt(SubSeq(s, 1, Len(s) - 1)) + (IndexIn(Digits, s[Len(s)]) - 1)

\* t in s
Contains(s, t) ==
    \E i \in 0..(Len(s) - Len(t)) : SubSeq(s, i + 1, i + Len(t)) = t

\* any(term in s for term in terms)
ContainsAny(s, terms) == \E t \in terms : Contains(s, t)

\* str.strip() and str.split() for texts whose only white space is " "
RECURSIVE Strip(_)
Strip(s) ==
    IF s = <<>> THEN s
    ELSE IF Head(s) = " " THEN Strip(Tail(s))
    ELSE IF s[Len(s)] = " " THEN Strip(SubSeq(s, 1, Len(s) - 1))
    ELSE s

RECURSIVE SplitFrom(_, _)
\* the words of s, word being the word read so far
SplitFrom(s, word) ==
    IF s = <<>> THEN (IF word = <<>> THEN <<>> ELSE <<word>>)
    ELSE IF Head(s) = " "
         THEN (IF word = <<>> THEN <<>> ELSE <<word>>) \o SplitFrom(Tail(s), <<>>)
         ELSE SplitFrom(Tail(s), Append(word, Head(s)))

Split(s) == SplitFrom(s, <<>>)

----------------------------------------------------------------------------
(* Reference tables (utils/database.py, init_database).  The rows come from *)
(* CSV files that are not part of the source; the rows below are a small    *)
(* table of each schema.                                                    *)

\* number of rows of occupational_adjustments and of age_adjustment
TableRows == 40

VariantLetters == <<"c", "d", "e", "f", "g", "h", "i", "j">>

AgeColumns == <<"21_and_under", "22_to_26", "27_to_31", "32_to_36", "37_to_41",
                "42_to_46", "47_to_51", "52_to_56", "57_to_61", "62_and_over">>

\* the column names of occupational_adjustments, in schema order
OccupationalColumns == <<<<"i", "d">>, <<"r", "a", "t", "i", "n", "g", "_", "p", "e", "r", "c", "e", "n", "t">>>> \o [i \in 1..8 |-> <<VariantLetters[i]>>]

\* the cell of rating r% in the column of the k-th variant letter: column f
\* leaves the rating unchanged, each column to the right adds to it
OccupationalCell(r, k) == 100 * Min(100, Max(0, r + (k - 4) * (1 + r \div 10)))

\* occupational_adjustments: one row for each rating 1%..TableRows%
occupational_adjustments ==
    { [ id |-> r * 100, rating_percent |-> r * 100,
        c |-> OccupationalCell(r, 1), d |-> OccupationalCell(r, 2),
        e |-> OccupationalCell(r, 3), f |-> OccupationalCell(r, 4),
        g |-> OccupationalCell(r, 5), h |-> OccupationalCell(r, 6),
        i |-> OccupationalCell(r, 7), j |-> OccupationalCell(r, 8) ]
      : r \in 1..TableRows }

\* the cell of wpi r% in the k-th age bracket
AgeCell(r, k) == 100 * Min(100, Max(0, r + (k - 5) * (1 + r \div 15)))

\* age_adjustment: one row for each wpi 1%..TableRows%
age_adjustment ==
    { ("id" :> r * 100) @@ ("wpi_percent" :> r * 100) @@
      (AgeColumns[1] :> AgeCell(r, 1)) @@ (AgeColumns[2] :> AgeCell(r, 2)) @@
      (AgeColumns[3] :> AgeCell(r, 3)) @@ (AgeColumns[4] :> AgeCell(r, 4)) @@
      (AgeColumns[5] :> AgeCell(r, 5)) @@ (AgeColumns[6] :> AgeCell(r, 6)) @@
      (AgeColumns[7] :> AgeCell(r, 7)) @@ (AgeColumns[8] :> AgeCell(r, 8)) @@
      (AgeColumns[9] :> AgeCell(r, 9)) @@ (AgeColumns[10] :> AgeCell(r, 10))
      : r \in 1..TableRows }

\* occupations, in rowid order
occupations == <<
    [group_number |-> 380, occupation_title |-> <<"C", "A", "R", "P", "E", "N", "T", "E", "R">>],
    [group_number |-> 111, occupation_title |-> <<"C", "L", "E", "R", "K">>],
    [group_number |-> 212, occupation_title |-> <<"T", "E", "A", "C", "H", "E", "R">>] >>

\* the group_XXX columns of variants and of variants_2
GroupColumns1 == {110, 111, 112, 120, 210, 211, 212, 213, 214, 220, 221, 230, 240,
                  250, 251, 290}
GroupColumns2 == {310, 311, 320, 321, 322, 330, 331, 332, 340, 341, 350, 351, 360,
                  370, 380, 390, 420, 430, 460, 470, 480, 481, 482, 490, 491, 492,
                  493, 560, 590}

\* variants and variants_2, in rowid order; an empty cell is the empty text
variants == <<
    [body_part |-> <<"S", "P", "I", "N", "E">>, group |-> [g \in GroupColumns1 |-> <<"F">>]],
    [body_part |-> <<"A", "R", "M">>,   group |-> [g \in GroupColumns1 |-> <<"E">>]],
    [body_part |-> <<"L", "E", "G">>,   group |-> [g \in GroupColumns1 |-> IF g = 212 THEN <<"K">> ELSE <<"D">>]],
    [body_part |-> <<"S", "H", "O", "U", "L", "D", "E", "R">>, group |-> [g \in GroupColumns1 |-> <<>>]] >>

variants_2 == <<
    [body_part |-> <<"S", "P", "I", "N", "E">>, group |-> [g \in GroupColumns2 |-> IF g = 380 THEN <<"i">> ELSE <<"G">>]],
    [body_part |-> <<"A", "R", "M">>,   group |-> [g \in GroupColumns2 |-> <<"H">>]],
    [body_part |-> <<"L", "E", "G">>,   group |-> [g \in GroupColumns2 |-> IF g = 360 THEN <<>> ELSE <<"J">>]],
    [body_part |-> <<"S", "H", "O", "U", "L", "D", "E", "R">>, group |-> [g \in GroupColumns2 |-> <<>>]] >>

----------------------------------------------------------------------------
(* utils/database.py: the lookups.  A call returns Ok(value) or raises.     *)

Ok(v) == [ok |-> TRUE, value |-> v, error |-> "", message |-> ""]
Raise(e, m) == [ok |-> FALSE, value |-> 0, error |-> e, message |-> m]

\* cursor.fetchone() of SELECT ... WHERE cond: the first of the rows the
\* condition selects (selected: their indices), or None
FirstRow(rows, selected) ==
    IF selected = {} THEN None
    ELSE Some(rows[CHOOSE i \in selected : \A j \in selected : i <= j])

RECURSIVE Like(_, _)
\* text LIKE pattern of SQLite for lower-case text: "%" of the pattern stands
\* for any run of characters and "_" for any one character
Like(text, pattern) ==
    IF pattern = <<>> THEN text = <<>>
    ELSE IF Head(pattern) = "%"
         THEN \/ Like(text, Tail(pattern))
              \/ text # <<>> /\ Like(Tail(text), pattern)
    ELSE /\ text # <<>>
         /\ Head(pattern) = "_" \/ Head(pattern) = Head(text)
         /\ Like(Tail(text), Tail(pattern))

\* WHERE LOWER(occupation_title) LIKE '%' + text + '%'
TitleLike(text) ==
    FirstRow(occupations,
             {i \in DOMAIN occupations :
                 Like(Lower(occupations[i].occupation_title),
                      <<"%">> \o Lower(text) \o <<"%">>)})

RECURSIVE MatchWords(_)
\* the loop over the words of the occupation: the first hit wins
MatchWords(words) ==
    IF words = <<>> THEN None
    ELSE LET Pick(result) == IF Len(Head(words)) > 2 /\ result # None
                             THEN result
                             ELSE MatchWords(Tail(words))
         IN  Pick(TitleLike(Head(words)))

get_occupation_group(occupation) ==
    LET Found(result) ==
            IF result = None
            THEN Raise("ValueError", "not found in 'occupations' table")
            ELSE Ok(result[1].group_number)
        \* the exact match, else the match of the first word that has one
        Search(occupation_lower, exact) ==
            Found(IF exact # None THEN exact ELSE MatchWords(Split(occupation_lower)))
        Special(occupation_lower) ==
            IF Contains(occupation_lower, <<"s", "t", "o", "c", "k", "e", "r">>) \/ Contains(occupation_lower, <<"s", "o", "r", "t", "e", "r">>)
            THEN Ok(360)
            ELSE Search(occupation_lower, TitleLike(occupation_lower))
    IN  IF /\ Len(occupation) >= 3
           /\ IsDigit(SubSeq(occupation, 1, Len(occupation) - 1))
           /\ IsAlpha(<<occupation[Len(occupation)]>>)
        THEN Ok(ToInt(SubSeq(occupation, 1, Len(occupation) - 1)))
        ELSE Special(Lower(occupation))

code_to_body_part(impairment_code) ==
    CASE impairment_code = <<"S", "P", "I", "N", "E", "-", "D", "R", "E", "-", "R", "O", "M">> -> <<"S", "P", "I", "N", "E">>
      [] impairment_code = <<"P", "E", "R", "I", "P", "H", "-", "S", "P", "I", "N", "E">> -> <<"S", "P", "I", "N", "E">>
      [] impairment_code = <<"P", "E", "R", "I", "P", "H", "-", "U", "E">> -> <<"A", "R", "M">>
      [] impairment_code = <<"P", "E", "R", "I", "P", "H", "-", "L", "E">> -> <<"L", "E", "G">>
      [] impairment_code = <<"A", "R", "M", "-", "A", "M", "P", "U", "T">> -> <<"A", "R", "M">>
      [] impairment_code = <<"A", "R", "M", "-", "G", "R", "I", "P", "/", "P", "I", "N", "C", "H">> -> <<"A", "R", "M">>
      [] impairment_code = <<"S", "H", "O", "U", "L", "D", "E", "R", "-", "R", "O", "M">> -> <<"S", "H", "O", "U", "L", "D", "E", "R">>
      [] impairment_code = <<"E", "L", "B", "O", "W", "-", "R", "O", "M">> -> <<"E", "L", "B", "O", "W">>
      [] impairment_code = <<"W", "R", "I", "S", "T", "-", "R", "O", "M">> -> <<"W", "R", "I", "S", "T">>
      [] impairment_code = <<"L", "E", "G", "-", "A", "M", "P", "U", "T">> -> <<"L", "E", "G">>
      [] OTHER -> impairment_code

ArmTerms == {<<"a", "r", "m">>, <<"h", "a", "n", "d">>, <<"w", "r", "i", "s", "t">>, <<"e", "l", "b", "o", "w">>, <<"s", "h", "o", "u", "l", "d", "e", "r">>}
LegTerms == {<<"l", "e", "g">>, <<"k", "n", "e", "e">>, <<"a", "n", "k", "l", "e">>, <<"f", "o", "o", "t">>}

get_variant_for_impairment(group_num, impairment_code) ==
    LET table       == IF group_num >= 310 THEN variants_2 ELSE variants
        Equals(bp)  == FirstRow(table, {i \in DOMAIN table : table[i].body_part = bp})
        Label(generic, variant_label) ==
            IF variant_label = <<>>
            THEN \* the connection was closed before the second query is executed
                 IF generic
                 THEN Raise("ProgrammingError", "Cannot operate on a closed database.")
                 ELSE Raise("ValueError", "No variant found")
            ELSE Ok(Upper(variant_label))
        \* variant_data.get(group_key): None when the table has no such column
        Variant(generic, result) ==
            IF result = None THEN Ok(<<"G">>)
            ELSE Label(generic, IF group_num \in DOMAIN result[1].group
                                THEN result[1].group[group_num] ELSE <<>>)
        Generic(IsArm, IsLeg, exact) ==
            Variant(IsArm \/ IsLeg,
                    IF exact # None THEN exact
                    ELSE IF IsArm THEN Equals(<<"A", "R", "M">>)
                    ELSE IF IsLeg THEN Equals(<<"L", "E", "G">>)
                    ELSE None)
        Lookup(lookup_code, lower) ==
            Generic(ContainsAny(lower, ArmTerms), ContainsAny(lower, LegTerms),
                    Equals(lookup_code))
        Code(lookup_code) == Lookup(lookup_code, Lower(lookup_code))
    IN  Code(code_to_body_part(impairment_code))

\* the row lookup as a ceiling match: the row with the smallest key >= target
FloorRow_ceiling(rows, key, target) ==
    LET keys  == {row[key] : row \in rows}
        above == {k \in keys : k >= target}
        WithKey(k) == CHOOSE row \in rows : row[key] = k
    IN  IF above # {}
        THEN Some(WithKey(CHOOSE k \in above : \A other \in above : k <= other))
        ELSE IF keys # {}
        THEN Some(WithKey(CHOOSE k \in keys : \A other \in keys : k <= other))
        ELSE None

\* the row with the largest key <= target, else the row with the smallest key
FloorRow(rows, key, target) ==
    LET keys  == {row[key] : row \in rows}
        below == {k \in keys : k <= target}
        WithKey(k) == CHOOSE row \in rows : row[key] = k
    IN  IF below # {}
        THEN Some(WithKey(CHOOSE k \in below : \A other \in below : other <= k))
        ELSE IF keys # {}
        THEN Some(WithKey(CHOOSE k \in keys : \A other \in keys : k <= other))
        ELSE None

\* the column of occupational_adjustments that has the name text
ColumnName(text) ==
    IF text = <<"i", "d">> THEN "id"
    ELSE IF text = <<"r", "a", "t", "i", "n", "g", "_", "p", "e", "r", "c", "e", "n", "t">> THEN "rating_percent"
    ELSE text[1]

get_occupational_adjusted_wpi(group_num, variant_label, base_wpi) ==
    LET Cell(result, column) ==
            IF result = None
            THEN Raise("ValueError", "No occupational adjustment found")
            ELSE IF ~Occurs(OccupationalColumns, column)
            THEN Raise("ValueError", "Invalid variant label")
            ELSE Ok(result[1][ColumnName(column)])
    IN  Cell(FloorRow(occupational_adjustments, "rating_percent", base_wpi),
             Lower(variant_label))

\* next(col for (start, end), col in age_ranges.items() if start <= age < end)
age_column(age) ==
    IF 0 <= age /\ age < 22 THEN Some("21_and_under")
    ELSE IF 22 <= age /\ age < 27 THEN Some("22_to_26")
    ELSE IF 27 <= age /\ age < 32 THEN Some("27_to_31")
    ELSE IF 32 <= age /\ age < 37 THEN Some("32_to_36")
    ELSE IF 37 <= age /\ age < 42 THEN Some("37_to_41")
    ELSE IF 42 <= age /\ age < 47 THEN Some("42_to_46")
    ELSE IF 47 <= age /\ age < 52 THEN Some("47_to_51")
    ELSE IF 52 <= age /\ age < 57 THEN Some("52_to_56")
    ELSE IF 57 <= age /\ age < 62 THEN Some("57_to_61")
    ELSE IF 62 <= age /\ age < 150 THEN Some("62_and_over")
    ELSE None

get_age_adjusted_wpi(age, raw_wpi) ==
    LET Cell(result, column) ==
            IF result = None
            THEN Raise("ValueError", "No data found in age adjustment table.")
            ELSE IF column = None
            THEN Raise("ValueError", "No age bracket found")
            ELSE Ok(result[1][column[1]])
    IN  Cell(FloorRow(age_adjustment, "wpi_percent", raw_wpi), age_column(age))

\* the connection of each lookup when the lookup exits: "none" when
\* sqlite3.connect was not reached, "closed" when conn.close() was executed on
\* the path taken, "open" otherwise
get_occupation_group_connection(occupation) ==
    IF \/ /\ Len(occupation) >= 3
          /\ IsDigit(SubSeq(occupation, 1, Len(occupation) - 1))
          /\ IsAlpha(<<occupation[Len(occupation)]>>)
       \/ ContainsAny(Lower(occupation), {<<"s", "t", "o", "c", "k", "e", "r">>, <<"s", "o", "r", "t", "e", "r">>})
    THEN "none"
    ELSE "closed"

get_variant_for_impairment_connection(group_num, impairment_code) == "closed"

get_occupational_adjusted_wpi_connection(group_num, variant_label, base_wpi) ==
    IF FloorRow(occupational_adjustments, "rating_percent", base_wpi) = None
    THEN "closed"
    ELSE IF ~Occurs(OccupationalColumns, Lower(variant_label))
    THEN "open"     \* raise ValueError("Invalid variant label") without conn.close()
    ELSE "closed"

get_age_adjusted_wpi_connection(age, raw_wpi) == "closed"

----------------------------------------------------------------------------
(* utils/database.py: init_database, run by several sessions on one         *)
(* database file.  A connection reads the committed rows and its own        *)
(* uncommitted rows; its first INSERT begins a transaction and takes the     *)
(* write lock of the file, which it keeps until conn.commit().              *)

\* csv_files, in the order of the dictionary
TableNames == <<"occupational_adjustments", "occupations", "variants", "variants_2",
                "age_adjustment">>

\* the rows of a CSV file, each named by its number
CsvRowIds == [i \in 1..CsvRows |-> i]

\* the first table after table t that has a CSV file, or Len(TableNames) + 1
NextTable(t, csv_exists) ==
    LET later == {u \in (t + 1)..Len(TableNames) : u \in csv_exists}
    IN  IF later = {} THEN Len(TableNames) + 1
        ELSE CHOOSE u \in later : \A w \in later : u <= w

\* the rows of table t session s reads
VisibleRows(d, s, t) == d.tables[t] \o d.pending[s][t]

NoRows == [t \in DOMAIN TableNames |-> <<>>]

\* the session goes on with the table after t, or with conn.commit()
Advance(session, t, csv_exists) ==
    LET next == NextTable(t, csv_exists)
    IN  IF next > Len(TableNames)
        THEN [session EXCEPT !.pc = "commit", !.table = next]
        ELSE [session EXCEPT !.pc = "count", !.table = next]

\* sqlite3.connect and cursor.executescript: the tables exist afterwards
init_database_connect(d, s) ==
    [d EXCEPT !.sessions[s] =
        Advance([pc |-> "count", table |-> 0, after_load |-> d.loaded], 0, d.csv_exists)]

\* import_csv imports into every table, empty or not
table_is_empty_unchecked(rows) ==
    TRUE

\* cursor.fetchone()[0] == 0 after SELECT COUNT(*)
table_is_empty(rows) ==
    rows = <<>>

\* import_csv: SELECT COUNT(*) FROM table and the test of the count
import_csv_count(d, s) ==
    LET t == d.sessions[s].table
    IN  IF table_is_empty(VisibleRows(d, s, t))
        THEN [d EXCEPT !.sessions[s].pc = "insert"]
        ELSE [d EXCEPT !.sessions[s] = Advance(d.sessions[s], t, d.csv_exists)]

\* the exception leaves init_database: the connection is dropped, its
\* transaction rolled back and its lock released
init_database_raise(d, s) ==
    [d EXCEPT !.sessions[s].pc = "failed",
              !.pending[s] = NoRows,
              !.lock = IF d.lock = s THEN 0 ELSE d.lock]

\* import_csv: the INSERTs of the rows of the CSV file.  With a column id in
\* the CSV file a row whose id is in the table violates the primary key
import_csv_insert(d, s) ==
    LET t == d.sessions[s].table
        visible == VisibleRows(d, s, t)
    IN  IF d.csv_has_id /\ \E i \in DOMAIN visible, j \in DOMAIN CsvRowIds :
                                visible[i] = CsvRowIds[j]
        THEN init_database_raise(d, s)      \* sqlite3.IntegrityError
        ELSE [d EXCEPT !.pending[s][t] = @ \o CsvRowIds,
                       !.lock = s,
                       !.sessions[s] = Advance(d.sessions[s], t, d.csv_exists)]

\* conn.commit() and conn.close()
init_database_commit(d, s) ==
    [d EXCEPT !.tables = [t \in DOMAIN TableNames |-> d.tables[t] \o d.pending[s][t]],
              !.pending[s] = NoRows,
              !.lock = IF d.lock = s THEN 0 ELSE d.lock,
              !.loaded = TRUE,
              !.sessions[s].pc = "done"]

----------------------------------------------------------------------------
(* utils/report_processor.py: process_medical_reports, step by step.  disk   *)
(* is the set of temporary files in the working directory, remote the set of *)
(* files held by OpenAI; a.fault names the call of the run that raises.      *)

\* openai_files = [], temp_files = [], client = None, use_direct_text = True
NewReport ==
    [ at |-> "start", i |-> 1, client |-> FALSE, openai_files |-> <<>>,
      temp_files |-> <<>>, use_direct_text |-> TRUE, extracted_text |-> FALSE,
      disk |-> {}, remote |-> {}, progress |-> <<>>, raised |-> FALSE ]

\* the k-th call of the kind step is the one that raises
Fails(a, step, k) == a.fault = step /\ a.fault_at = k

\* if progress_callback: progress_callback(v) for the values in turn
Progress(r, a, values) ==
    IF a.progress_callback THEN [r EXCEPT !.progress = @ \o values] ELSE r

\* an exception in the try block: control passes to the finally block
Except(r) == [r EXCEPT !.at = "finally", !.raised = TRUE]

\* f"temp_file_{len(temp_files)}.{file_extension}"
temp_filename(r, file_extension) == <<Len(r.temp_files), file_extension>>

\* progress_callback(5), init_openai_client(), progress_callback(10)
pmr_init_client(r, a) ==
    LET r5 == Progress(r, a, <<5>>)
    IN  IF Fails(a, "client", 1)
        THEN Except(r5)
        ELSE Progress([r5 EXCEPT !.client = TRUE, !.at = "save"], a, <<10>>)

\* one round of the loop that saves the uploaded files and extracts the text
\* of the PDF files; open() creates the temporary file before
\* uploaded_file.getvalue() and f.write() run
pmr_save_file(r, a) ==
    LET n == Len(a.uploaded_files)
        file_extension == a.uploaded_files[r.i]
        opened == [r EXCEPT !.disk = @ \cup {temp_filename(r, file_extension)}]
        saved == [opened EXCEPT !.temp_files = Append(@, temp_filename(r, file_extension))]
    IN  IF r.i > n
        THEN [r EXCEPT !.at = "branch"]
        ELSE IF Fails(a, "write", r.i)
        THEN Except(opened)
        ELSE IF file_extension = "pdf"
        THEN Progress([saved EXCEPT !.extracted_text = TRUE, !.i = @ + 1], a,
                      <<Min(10 + (r.i * 20) \div n, 30)>>)
        ELSE [saved EXCEPT !.use_direct_text = FALSE, !.at = "branch"]

\* the choice between the text of the files and the vector store
pmr_branch(r, a) ==
    LET use_direct_text == r.use_direct_text /\ ~(r.extracted_text /\ a.text = "large")
    IN  IF use_direct_text /\ r.extracted_text
        THEN Progress([r EXCEPT !.use_direct_text = TRUE, !.at = "assistant"], a, <<50>>)
        ELSE [r EXCEPT !.use_direct_text = FALSE, !.at = "upload", !.i = 1]

\* one round of the loop over uploaded_files that uploads temp_files[i]
pmr_upload(r, a) ==
    IF r.i > Len(a.uploaded_files)
    THEN [r EXCEPT !.at = "vector_store"]
    ELSE IF r.i > Len(r.temp_files) \/ Fails(a, "upload", r.i)
    THEN Except(r)                      \* IndexError, or client.files.create raises
    ELSE [r EXCEPT !.remote = @ \cup {r.i},
                   !.openai_files = Append(@, r.i),
                   !.i = @ + 1]

\* the vector store and its file batch
pmr_vector_store(r, a) ==
    LET r40 == Progress(r, a, <<35, 40>>)
    IN  IF Fails(a, "vector_store", 1)
        THEN Except(r40)
        ELSE Progress([r40 EXCEPT !.at = "assistant"], a, <<50>>)

\* client.beta.assistants.create or update
pmr_assistant(r, a) ==
    IF Fails(a, "assistant", 1)
    THEN Except(r)
    ELSE Progress([r EXCEPT !.at = "run"], a, <<55>>)

\* the run of the assistant and the handling of its response
pmr_run(r, a) ==
    LET r60 == Progress(r, a, <<60>>)
        r80 == IF r.use_direct_text THEN r60 ELSE Progress(r60, a, <<80>>)
    IN  IF Fails(a, "run", 1)
        THEN Except(r60)                \* create_and_poll raises
        ELSE IF Fails(a, "status", 1)
        THEN Except(r80)                \* run.status is not "completed"
        ELSE IF a.mode = "detailed"
        THEN Progress([r80 EXCEPT !.at = "finally"], a, <<85, 95>>)
        ELSE Progress([r80 EXCEPT !.at = "finally"], a, <<85, 90, 95>>)

\* the finally block: client.files.delete for the files of openai_files, an
\* exception of it passed over; os.remove for the files of temp_files;
\* progress_callback(100)
pmr_finally(r, a) ==
    LET deleted == {r.openai_files[k] : k \in {k \in DOMAIN r.openai_files :
                                                   ~Fails(a, "delete", k)}}
        removed == {r.temp_files[k] : k \in DOMAIN r.temp_files}
    IN  Progress([r EXCEPT !.remote = IF r.client THEN @ \ deleted ELSE @,
                           !.disk = @ \ removed,
                           !.at = "exit"], a, <<100>>)

----------------------------------------------------------------------------
(* utils/calculations.py *)

\* C = A + B(1 - A/100) with A the larger value, rounded to 2 decimals
combine_two_values(a, b) ==
    LET hi == Max(a, b)
        lo == Min(a, b)
    IN  RoundHalfEven(hi * 10000 + lo * (10000 - hi), 10000)

\* sorted(values, reverse=True)
RECURSIVE InsertDesc(_, _)
InsertDesc(s, x) ==
    IF s = <<>> THEN <<x>>
    ELSE IF x >= Head(s) THEN <<x>> \o s
    ELSE <<Head(s)>> \o InsertDesc(Tail(s), x)

RECURSIVE SortedDesc(_)
SortedDesc(s) ==
    IF s = <<>> THEN <<>> ELSE InsertDesc(SortedDesc(Tail(s)), Head(s))

\* the loop of combine_wpi_values: result = combine_two_values(result, values[i])
RECURSIVE CombineFrom(_, _)
CombineFrom(result, rest) ==
    IF rest = <<>> THEN result
    ELSE CombineFrom(combine_two_values(result, Head(rest)), Tail(rest))

\* combine_wpi_values without the descending sort
combine_wpi_values_unsorted(values) ==
    IF Len(values) = 0 THEN 0
    ELSE IF Len(values) = 1 THEN values[1]
    ELSE CombineFrom(Head(values), Tail(values))

\* combine_wpi_values with "if len(wpi_values) <= 1: return 0.0"
combine_wpi_values_single_is_zero(values) ==
    IF Len(values) <= 1 THEN 0
    ELSE LET sorted == SortedDesc(values)
         IN  CombineFrom(Head(sorted), Tail(sorted))

combine_wpi_values(values) ==
    IF Len(values) = 0 THEN 0
    ELSE IF Len(values) = 1 THEN values[1]
    ELSE LET sorted == SortedDesc(values)
         IN  CombineFrom(Head(sorted), Tail(sorted))

----------------------------------------------------------------------------
(* The closed form 100 * (1 - PROD(1 - v/100)), rounded once to 2 decimals. *)
(* The product of n factors (10000 - v) needs more than 32 bits, so it is   *)
(* kept as a number in base 10000, least significant digit first.          *)

RECURSIVE MulSmall(_, _, _)
\* digits * m + carry, one digit longer than digits
MulSmall(digits, m, carry) ==
    IF digits = <<>> THEN <<carry>>
    ELSE LET t == Head(digits) * m + carry
         IN  <<t % 10000>> \o MulSmall(Tail(digits), m, t \div 10000)

RECURSIVE ProductOfComplements(_)
\* PROD (10000 - v), as Len(values) + 1 digits
ProductOfComplements(values) ==
    IF values = <<>> THEN <<1>>
    ELSE MulSmall(ProductOfComplements(Tail(values)), 10000 - Head(values), 0)

AllZero(digits) == \A i \in DOMAIN digits : digits[i] = 0

\* for a list of n >= 1 percentages in [0,100]
ClosedForm(values) ==
    LET n      == Len(values)
        p      == ProductOfComplements(values)
        whole  == p[n] + 10000 * p[n + 1]          \* PROD / 10000^(n-1), integer part
        frac   == SubSeq(p, 1, n - 1)              \* its fraction digits
        upper  == 10000 - whole
    IN  IF AllZero(frac) THEN upper
        ELSE IF frac[n - 1] < 5000 THEN upper
        ELSE IF frac[n - 1] > 5000 \/ ~AllZero(SubSeq(frac, 1, n - 2)) THEN upper - 1
        ELSE IF upper % 2 = 0 THEN upper ELSE upper - 1

----------------------------------------------------------------------------
(* utils/report_processor.py *)

RangeTerms == {<<"r", "a", "n", "g", "e">>, <<"m", "o", "t", "i", "o", "n">>, <<"r", "o", "m">>}

map_body_part_to_code(body_part) ==
    LET Code(body_part_lower) ==
            LET Has(term) == Contains(body_part_lower, term)
            IN  IF ContainsAny(body_part_lower, {<<"s", "p", "i", "n", "e">>, <<"b", "a", "c", "k">>, <<"l", "u", "m", "b", "a", "r">>, <<"t", "h", "o", "r", "a", "c", "i", "c">>, <<"c", "e", "r", "v", "i", "c", "a", "l">>, <<"n", "e", "c", "k">>})
            THEN IF Has(<<"l", "u", "m", "b", "a", "r">>) /\ ContainsAny(body_part_lower, RangeTerms) THEN <<"1", "5", ".", "0", "3", ".", "0", "2", ".", "0", "5">>
                 ELSE IF Has(<<"c", "e", "r", "v", "i", "c", "a", "l">>) /\ ContainsAny(body_part_lower, RangeTerms) THEN <<"1", "5", ".", "0", "1", ".", "0", "2", ".", "0", "5">>
                 ELSE <<"1", "5", ".", "0", "3", ".", "0", "2", ".", "0", "5">>
            ELSE IF Has(<<"s", "h", "o", "u", "l", "d", "e", "r">>) THEN <<"1", "6", ".", "0", "2", ".", "0", "1", ".", "0", "0">>
            ELSE IF Has(<<"e", "l", "b", "o", "w">>) THEN <<"1", "6", ".", "0", "3", ".", "0", "1", ".", "0", "0">>
            ELSE IF Has(<<"w", "r", "i", "s", "t">>) THEN <<"1", "6", ".", "0", "4", ".", "0", "1", ".", "0", "0">>
            ELSE IF ContainsAny(body_part_lower, {<<"h", "a", "n", "d">>, <<"f", "i", "n", "g", "e", "r">>, <<"t", "h", "u", "m", "b">>}) THEN <<"1", "6", ".", "0", "5", ".", "0", "0", ".", "0", "0">>
            ELSE IF Has(<<"g", "r", "i", "p">>) \/ Has(<<"p", "i", "n", "c", "h">>) THEN <<"1", "6", ".", "0", "1", ".", "0", "4", ".", "0", "0">>
            ELSE IF Has(<<"k", "n", "e", "e">>)
            THEN IF Has(<<"m", "u", "s", "c", "l", "e">>) \/ Has(<<"s", "t", "r", "e", "n", "g", "t", "h">>) THEN <<"1", "7", ".", "0", "5", ".", "0", "5", ".", "0", "0">> ELSE <<"1", "7", ".", "0", "5", ".", "0", "0", ".", "0", "0">>
            ELSE IF Has(<<"a", "n", "k", "l", "e">>) THEN <<"1", "7", ".", "0", "7", ".", "0", "0", ".", "0", "0">>
            ELSE IF Has(<<"h", "i", "p">>) THEN <<"1", "7", ".", "0", "3", ".", "0", "0", ".", "0", "0">>
            ELSE IF Has(<<"l", "e", "g">>) /\ Has(<<"a", "m", "p", "u", "t">>) THEN <<"1", "7", ".", "0", "1", ".", "0", "2", ".", "0", "0">>
            ELSE IF Has(<<"m", "a", "s", "t", "i", "c", "a", "t", "i", "o", "n">>) \/ Has(<<"j", "a", "w">>) THEN <<"1", "1", ".", "0", "3", ".", "0", "2", ".", "0", "0">>
            ELSE IF ContainsAny(body_part_lower, {<<"a", "r", "m">>, <<"u", "p", "p", "e", "r", " ", "e", "x", "t", "r", "e", "m", "i", "t", "y">>, <<"b", "i", "c", "e", "p">>, <<"t", "r", "i", "c", "e", "p">>})
            THEN <<"1", "6", ".", "0", "0", ".", "0", "0", ".", "0", "0">>
            ELSE IF ContainsAny(body_part_lower, {<<"l", "e", "g">>, <<"l", "o", "w", "e", "r", " ", "e", "x", "t", "r", "e", "m", "i", "t", "y">>, <<"s", "h", "i", "n">>, <<"c", "a", "l", "f">>})
            THEN <<"1", "7", ".", "0", "0", ".", "0", "0", ".", "0", "0">>
            ELSE <<"0", "0", ".", "0", "0", ".", "0", "0", ".", "0", "0">>
    IN  Code(Strip(Lower(body_part)))

calculate_payment_weeks(p) ==
    IF p < 1000 THEN p * 4
    ELSE IF p < 2475 THEN p * 5
    ELSE IF p < 2975 THEN p * 6
    ELSE IF p < 4975 THEN p * 7
    ELSE IF p < 6975 THEN p * 8
    ELSE IF p < 9975 THEN p * 9
    ELSE p * 9

\* 290.0 dollars a week, in cents
pd_weekly_rate == 29000
\* 515.38 and 85.0 dollars, in cents
life_pension_max_earnings == 51538
life_pension_rate == 8500

\* the f-string of calculate_pd_payout, field by field; ":.0f" rounds to a
\* whole percent
formatted_string(detail) ==
    << detail.impairment_code, RoundHalfEven(detail.original_wpi, 100),
       RoundHalfEven(detail.adjusted_wpi, 100), detail.group_number, detail.variant,
       RoundHalfEven(detail.age_adjusted_wpi, 100) >>

RECURSIVE formatted_impairments(_)
\* the loop of calculate_pd_payout over the details
formatted_impairments(calculation_details) ==
    IF calculation_details = <<>> THEN <<>>
    ELSE LET detail == Head(calculation_details)
         IN  << [ body_part |-> detail.body_part,
                  formatted_string |-> formatted_string(detail),
                  wpi |-> IF detail.apportioned_wpi = None
                          THEN detail.age_adjusted_wpi
                          ELSE detail.apportioned_wpi[1] ] >>
             \o formatted_impairments(Tail(calculation_details))

calculate_pd_payout(final_pd_percent, calculation_details, age) ==
    LET weeks_ == calculate_payment_weeks(final_pd_percent)
    IN  [ final_pd_percent |-> final_pd_percent,
          weeks |-> weeks_,
          pd_weekly_rate |-> pd_weekly_rate,
          \* hundredths of a week times cents a week, in cents
          total_pd_dollars |-> weeks_ * (pd_weekly_rate \div 100),
          formatted_impairments |-> formatted_impairments(calculation_details),
          life_pension_weekly_rate |->
              IF final_pd_percent >= 7000 THEN Some(life_pension_rate) ELSE None,
          life_pension_max_earnings |->
              IF final_pd_percent >= 7000 THEN Some(life_pension_max_earnings) ELSE None,
          age |-> age ]

\* the letter of an occupation such as "380H", upper case; None otherwise
occupation_variant(occupation) ==
    IF /\ Len(occupation) >= 3
       /\ IsDigit(SubSeq(occupation, 1, Len(occupation) - 1))
       /\ IsAlpha(<<occupation[Len(occupation)]>>)
    THEN Some(Upper(<<occupation[Len(occupation)]>>))
    ELSE None

\* the body of the loop with the age lookup keyed by the value before the
\* occupational adjustment
impairment_detail_age_lookup_first(imp, group_number, age, occ_variant) ==
    LET original_wpi  == imp.wpi
        apportionment == imp.apportionment
        pain_addon    == Min(imp.pain_addon, 300)
        base_wpi      == original_wpi + pain_addon
        adjusted_wpi  == (base_wpi * 14) \div 10
        Detail(impairment_code, variant_label, occupant_adjusted_wpi, age_adjusted_wpi) ==
            LET apportioned_wpi == IF apportionment > 0
                                   THEN (age_adjusted_wpi * (10000 - apportionment)) \div 10000
                                   ELSE age_adjusted_wpi
            IN  [ body_part |-> imp.body_part,
                  impairment_code |-> impairment_code,
                  group_number |-> group_number,
                  variant |-> variant_label,
                  original_wpi |-> original_wpi,
                  pain_addon |-> pain_addon,
                  base_wpi |-> base_wpi,
                  adjusted_wpi |-> adjusted_wpi,
                  occupant_adjusted_wpi |-> occupant_adjusted_wpi,
                  age_adjusted_wpi |-> age_adjusted_wpi,
                  apportioned_wpi |-> IF apportionment > 0 THEN Some(apportioned_wpi) ELSE None,
                  apportionment |-> apportionment ]
        AgeAdjusted(impairment_code, variant_label, occupant_adjusted_wpi, age_adjusted) ==
            IF ~age_adjusted.ok THEN age_adjusted
            ELSE Ok(Detail(impairment_code, variant_label, occupant_adjusted_wpi,
                           age_adjusted.value))
        OccupantAdjusted(impairment_code, variant_label, occupant) ==
            IF ~occupant.ok THEN occupant
            ELSE AgeAdjusted(impairment_code, variant_label, occupant.value,
                             get_age_adjusted_wpi(age, adjusted_wpi))
        Variant(impairment_code, variant_info) ==
            IF ~variant_info.ok THEN variant_info
            ELSE OccupantAdjusted(impairment_code, variant_info.value,
                     get_occupational_adjusted_wpi(group_number, variant_info.value,
                                                   adjusted_wpi))
        Code(impairment_code) ==
            Variant(impairment_code,
                    IF occ_variant # None THEN Ok(occ_variant[1])
                    ELSE get_variant_for_impairment(group_number, impairment_code))
    IN  Code(map_body_part_to_code(imp.body_part))

\* the body of the loop over the impairments: the detail of one impairment,
\* or the exception of the first lookup that fails
impairment_detail(imp, group_number, age, occ_variant) ==
    LET original_wpi  == imp.wpi
        apportionment == imp.apportionment
        pain_addon    == Min(imp.pain_addon, 300)
        base_wpi      == original_wpi + pain_addon
        adjusted_wpi  == (base_wpi * 14) \div 10
        Detail(impairment_code, variant_label, occupant_adjusted_wpi, age_adjusted_wpi) ==
            LET apportioned_wpi == IF apportionment > 0
                                   THEN (age_adjusted_wpi * (10000 - apportionment)) \div 10000
                                   ELSE age_adjusted_wpi
            IN  [ body_part |-> imp.body_part,
                  impairment_code |-> impairment_code,
                  group_number |-> group_number,
                  variant |-> variant_label,
                  original_wpi |-> original_wpi,
                  pain_addon |-> pain_addon,
                  base_wpi |-> base_wpi,
                  adjusted_wpi |-> adjusted_wpi,
                  occupant_adjusted_wpi |-> occupant_adjusted_wpi,
                  age_adjusted_wpi |-> age_adjusted_wpi,
                  apportioned_wpi |-> IF apportionment > 0 THEN Some(apportioned_wpi) ELSE None,
                  apportionment |-> apportionment ]
        AgeAdjusted(impairment_code, variant_label, occupant_adjusted_wpi, age_adjusted) ==
            IF ~age_adjusted.ok THEN age_adjusted
            ELSE Ok(Detail(impairment_code, variant_label, occupant_adjusted_wpi,
                           age_adjusted.value))
        OccupantAdjusted(impairment_code, variant_label, occupant) ==
            IF ~occupant.ok THEN occupant
            ELSE AgeAdjusted(impairment_code, variant_label, occupant.value,
                             get_age_adjusted_wpi(age, occupant.value))
        Variant(impairment_code, variant_info) ==
            IF ~variant_info.ok THEN variant_info
            ELSE OccupantAdjusted(impairment_code, variant_info.value,
                     get_occupational_adjusted_wpi(group_number, variant_info.value,
                                                   adjusted_wpi))
        Code(impairment_code) ==
            Variant(impairment_code,
                    IF occ_variant # None THEN Ok(occ_variant[1])
                    ELSE get_variant_for_impairment(group_number, impairment_code))
    IN  Code(map_body_part_to_code(imp.body_part))

\* the two lists process_extracted_data combines
RECURSIVE no_apportionment_wpi_list(_)
no_apportionment_wpi_list(details) ==
    IF details = <<>> THEN <<>>
    ELSE <<Head(details).age_adjusted_wpi>> \o no_apportionment_wpi_list(Tail(details))

RECURSIVE with_apportionment_details(_)
with_apportionment_details(details) ==
    IF details = <<>> THEN <<>>
    ELSE (IF Head(details).apportionment > 0 THEN <<Head(details)>> ELSE <<>>)
         \o with_apportionment_details(Tail(details))

RECURSIVE with_apportionment_wpi_list(_)
with_apportionment_wpi_list(details) ==
    IF details = <<>> THEN <<>>
    ELSE (IF Head(details).apportionment > 0 THEN Head(details).apportioned_wpi ELSE <<>>)
         \o with_apportionment_wpi_list(Tail(details))

RECURSIVE impairment_details(_, _, _, _)
\* the loop over the impairments
impairment_details(impairments, group_number, age, occ_variant) ==
    IF impairments = <<>> THEN <<>>
    ELSE <<impairment_detail(Head(impairments), group_number, age, occ_variant)>>
         \o impairment_details(Tail(impairments), group_number, age, occ_variant)

RECURSIVE Values(_)
Values(results) ==
    IF results = <<>> THEN <<>> ELSE <<Head(results).value>> \o Values(Tail(results))

\* process_extracted_data: its outcome, and the details of its impairments
\* (the local no_apportionment_details) when it returns
process_extracted_data(d) ==
    LET Result(group_number, details_, no_apportionment_pd, with_apportionment_pd) ==
            [outcome |-> Ok([
                 no_apportionment |->
                     calculate_pd_payout(no_apportionment_pd, details_, d.age),
                 with_apportionment |->
                     \* "if with_apportionment_pd": neither None nor 0.0
                     IF with_apportionment_pd # None /\ with_apportionment_pd # Some(0)
                     THEN Some(calculate_pd_payout(with_apportionment_pd[1],
                                                   with_apportionment_details(details_), d.age))
                     ELSE None,
                 age |-> d.age,
                 occupation |-> d.occupation,
                 group_number |-> group_number ]),
             details |-> details_]
        Combined(group_number, details_, with_list) ==
            Result(group_number, details_,
                   combine_wpi_values(no_apportionment_wpi_list(details_)),
                   IF with_list # <<>> THEN Some(combine_wpi_values(with_list)) ELSE None)
        Details(group_number, details_) ==
            Combined(group_number, details_, with_apportionment_wpi_list(details_))
        \* the exception of the first impairment whose lookups fail leaves the loop
        Loop(group_number, each, failed) ==
            IF failed # {}
            THEN [outcome |-> Raise("Exception",
                                    each[CHOOSE i \in failed : \A j \in failed : i <= j].message),
                  details |-> <<>>]
            ELSE Details(group_number, Values(each))
        Each(group_number, each) ==
            Loop(group_number, each, {i \in DOMAIN each : ~each[i].ok})
        Group(group) ==
            IF ~group.ok
            THEN [outcome |-> Raise("Exception", group.message), details |-> <<>>]
            ELSE Each(group.value,
                      impairment_details(d.impairments, group.value, d.age,
                                         occupation_variant(d.occupation)))
    IN  Group(get_occupation_group(d.occupation))

(* app.py, pages/PDF_Calculator.py: their copies of calculate_payment_weeks *)

\* the copy of app.py with "<=" in the place of "<" in its first test
app_calculate_payment_weeks_inclusive(p) ==
    IF p <= 1000 THEN p * 4
    ELSE IF p < 2475 THEN p * 5
    ELSE IF p < 2975 THEN p * 6
    ELSE IF p < 4975 THEN p * 7
    ELSE IF p < 6975 THEN p * 8
    ELSE IF p < 9975 THEN p * 9
    ELSE p * 9

app_calculate_payment_weeks(p) ==
    IF p < 1000 THEN p * 4
    ELSE IF p < 2475 THEN p * 5
    ELSE IF p < 2975 THEN p * 6
    ELSE IF p < 4975 THEN p * 7
    ELSE IF p < 6975 THEN p * 8
    ELSE IF p < 9975 THEN p * 9
    ELSE p * 9

pdf_calculator_calculate_payment_weeks(p) ==
    IF p < 1000 THEN p * 4
    ELSE IF p < 2475 THEN p * 5
    ELSE IF p < 2975 THEN p * 6
    ELSE IF p < 4975 THEN p * 7
    ELSE IF p < 6975 THEN p * 8
    ELSE IF p < 9975 THEN p * 9
    ELSE p * 9

----------------------------------------------------------------------------
(* rating_calculator.py *)

RECURSIVE SplitOn(_, _, _)
\* the parts of s between the separators sep, word being the part read so far
SplitOn(s, sep, word) ==
    IF s = <<>> THEN <<word>>
    ELSE IF Head(s) = sep THEN <<word>> \o SplitOn(Tail(s), sep, <<>>)
    ELSE SplitOn(Tail(s), sep, Append(word, Head(s)))

\* the days of a month of the proleptic Gregorian calendar
DaysInMonth(year, month) ==
    IF month = 2
    THEN (IF year % 4 = 0 /\ (year % 100 # 0 \/ year % 400 = 0) THEN 29 ELSE 28)
    ELSE IF month \in {4, 6, 9, 11} THEN 30 ELSE 31

\* datetime.strptime(date_string, "%Y-%m-%d"): four digits, one or two digits
\* of a month, one or two digits of a day of that month
strptime(date_string) ==
    LET Date(year, month, day) ==
            IF /\ year >= 1
               /\ 1 <= month /\ month <= 12
               /\ 1 <= day /\ day <= DaysInMonth(year, month)
            THEN Ok([year |-> year, month |-> month, day |-> day])
            ELSE Raise("ValueError", "does not match format")
        Fields(parts) ==
            IF /\ Len(parts) = 3
               /\ IsDigit(parts[1]) /\ Len(parts[1]) = 4
               /\ IsDigit(parts[2]) /\ Len(parts[2]) <= 2
               /\ IsDigit(parts[3]) /\ Len(parts[3]) <= 2
            THEN Date(ToInt(parts[1]), ToInt(parts[2]), ToInt(parts[3]))
            ELSE Raise("ValueError", "does not match format")
    IN  Fields(SplitOn(date_string, "-", <<>>))

\* the body of the loop of calculate_rating over the body parts: the details
\* entry of one body part
rating_detail(bp, group_number, age, pain) ==
    LET part_name      == bp.body_part
        part_wpi       == IF bp.wpi < 0 THEN -bp.wpi ELSE bp.wpi
        given_pain     == IF bp.pain # None THEN bp.pain[1] ELSE pain
        part_pain      == IF given_pain < 0 \/ given_pain > 300
                          THEN Max(0, Min(given_pain, 300))
                          ELSE given_pain
        base_value     == part_wpi + part_pain
        \* round(base_value * 1.4, 1)
        adjusted_value == 10 * RoundHalfEven(base_value * 14, 100)
        Detail(variant, occupant_adjusted_wpi, part_final_value) ==
            [ body_part |-> part_name,
              group_number |-> group_number,
              variant |-> variant,
              base_value |-> base_value,
              adjusted_value |-> adjusted_value,
              occupant_adjusted_wpi |-> occupant_adjusted_wpi,
              age |-> age,
              final_value |-> part_final_value ]
        AgeAdjusted(variant, occupant_adjusted_wpi, age_adjusted) ==
            Detail(variant, occupant_adjusted_wpi,
                   IF age_adjusted.ok THEN age_adjusted.value ELSE occupant_adjusted_wpi)
        OccupantAdjusted(variant, occupant_adjusted_wpi) ==
            AgeAdjusted(variant, occupant_adjusted_wpi,
                        get_age_adjusted_wpi(age, occupant_adjusted_wpi))
        Occupant(variant, occupant) ==
            OccupantAdjusted(variant, IF occupant.ok THEN occupant.value ELSE adjusted_value)
        Variant(variant) ==
            Occupant(variant,
                     get_occupational_adjusted_wpi(group_number, variant, adjusted_value))
        VariantInfo(variant_info) ==
            Variant(IF variant_info.ok THEN variant_info.value ELSE <<"G">>)
    IN  VariantInfo(get_variant_for_impairment(group_number, part_name))

RECURSIVE rating_details(_, _, _, _)
\* the loop of calculate_rating over the body parts
rating_details(body_parts, group_number, age, pain) ==
    IF body_parts = <<>> THEN <<>>
    ELSE <<rating_detail(Head(body_parts), group_number, age, pain)>>
         \o rating_details(Tail(body_parts), group_number, age, pain)

RECURSIVE final_values(_)
final_values(details_) ==
    IF details_ = <<>> THEN <<>>
    ELSE <<Head(details_).final_value>> \o final_values(Tail(details_))

\* calculate_rating: the dictionary it returns.  bodypart is a text (kind "str",
\* rated with wpi) or a list of dictionaries (kind "list"); now_year is the year
\* of datetime.now()
calculate_rating(occupation, bodypart, age_injury, wpi, pain, now_year) ==
    LET Error(message) == [status |-> "error", message |-> message]
        body_parts == IF bodypart.kind = "str"
                      THEN <<[body_part |-> bodypart.value, wpi |-> wpi, pain |-> None]>>
                      ELSE bodypart.value
        Combined(details_) ==
            IF details_ = <<>> THEN Error("No valid impairment values found")
            ELSE [ status |-> "success",
                   final_value |-> IF Len(details_) > 1
                                   THEN combine_wpi_values(final_values(details_))
                                   ELSE details_[1].final_value,
                   details |-> details_ ]
        Group(group, age) ==
            IF ~group.ok THEN Error(group.message)
            ELSE Combined(rating_details(body_parts, group.value, age, pain))
        Date(injury_date) ==
            IF ~injury_date.ok
            THEN Error("Invalid date format. Please use YYYY-MM-DD format for age_injury")
            ELSE Group(get_occupation_group(occupation), now_year - injury_date.value.year)
    IN  IF occupation = <<>> THEN Error("Occupation cannot be empty")
        ELSE IF bodypart.value = <<>> THEN Error("Body part cannot be empty")
        ELSE IF age_injury = <<>> THEN Error("Age/injury date cannot be empty")
        ELSE Date(strptime(age_injury))

----------------------------------------------------------------------------
(* utils/ai_extractor.py *)

\* body_part_synonyms, in the order of the dictionary
body_part_synonyms == <<
    [main_name |-> <<"b", "a", "c", "k">>, synonyms |-> {<<"b", "a", "c", "k">>, <<"l", "u", "m", "b", "a", "r">>, <<"l", "u", "m", "b", "a", "r", " ", "s", "p", "i", "n", "e">>, <<"s", "p", "i", "n", "e">>, <<"l", "o", "w", "e", "r", " ", "b", "a", "c", "k">>}],
    [main_name |-> <<"n", "e", "c", "k">>, synonyms |-> {<<"n", "e", "c", "k">>, <<"c", "e", "r", "v", "i", "c", "a", "l">>, <<"c", "e", "r", "v", "i", "c", "a", "l", " ", "s", "p", "i", "n", "e">>}],
    [main_name |-> <<"s", "h", "o", "u", "l", "d", "e", "r">>, synonyms |-> {<<"s", "h", "o", "u", "l", "d", "e", "r">>, <<"r", "o", "t", "a", "t", "o", "r", " ", "c", "u", "f", "f">>}],
    [main_name |-> <<"k", "n", "e", "e">>, synonyms |-> {<<"k", "n", "e", "e">>, <<"p", "a", "t", "e", "l", "l", "a">>}],
    [main_name |-> <<"h", "a", "n", "d">>, synonyms |-> {<<"h", "a", "n", "d">>, <<"f", "i", "n", "g", "e", "r">>, <<"f", "i", "n", "g", "e", "r", "s">>, <<"t", "h", "u", "m", "b">>}],
    [main_name |-> <<"f", "o", "o", "t">>, synonyms |-> {<<"f", "o", "o", "t">>, <<"t", "o", "e">>, <<"t", "o", "e", "s">>, <<"a", "n", "k", "l", "e">>}],
    [main_name |-> <<"a", "r", "m">>, synonyms |-> {<<"a", "r", "m">>, <<"e", "l", "b", "o", "w">>, <<"f", "o", "r", "e", "a", "r", "m">>, <<"u", "p", "p", "e", "r", " ", "a", "r", "m">>}],
    [main_name |-> <<"l", "e", "g">>, synonyms |-> {<<"l", "e", "g">>, <<"t", "h", "i", "g", "h">>, <<"c", "a", "l", "f">>, <<"s", "h", "i", "n">>}],
    [main_name |-> <<"h", "i", "p">>, synonyms |-> {<<"h", "i", "p">>, <<"p", "e", "l", "v", "i", "s">>}],
    [main_name |-> <<"h", "e", "a", "d">>, synonyms |-> {<<"h", "e", "a", "d">>, <<"s", "k", "u", "l", "l">>, <<"c", "r", "a", "n", "i", "u", "m">>}],
    [main_name |-> <<"f", "a", "c", "e">>, synonyms |-> {<<"f", "a", "c", "e">>, <<"j", "a", "w">>, <<"m", "a", "n", "d", "i", "b", "l", "e">>, <<"m", "a", "x", "i", "l", "l", "a">>}],
    [main_name |-> <<"c", "h", "e", "s", "t">>, synonyms |-> {<<"c", "h", "e", "s", "t">>, <<"r", "i", "b">>, <<"r", "i", "b", "s">>, <<"t", "h", "o", "r", "a", "c", "i", "c">>, <<"t", "h", "o", "r", "a", "x">>}],
    [main_name |-> <<"a", "b", "d", "o", "m", "e", "n">>, synonyms |-> {<<"a", "b", "d", "o", "m", "e", "n">>, <<"s", "t", "o", "m", "a", "c", "h">>, <<"a", "b", "d", "o", "m", "i", "n", "a", "l">>}] >>

\* the main name of the first entry of body_part_synonyms of which a synonym
\* is part of the body part; the body part in lower case when there is none
normalize_body_part(body_part) ==
    LET Main(body_part_lower, found) ==
            IF found = {} THEN body_part_lower
            ELSE body_part_synonyms[CHOOSE i \in found : \A j \in found : i <= j].main_name
        Search(body_part_lower) ==
            Main(body_part_lower,
                 {i \in DOMAIN body_part_synonyms :
                     ContainsAny(body_part_lower, body_part_synonyms[i].synonyms)})
    IN  Search(Lower(body_part))

standard_body_part_codes ==
    (<<"b", "a", "c", "k">> :> <<"1", "5", ".", "0", "3", ".", "0", "2", ".", "0", "5">>) @@ (<<"n", "e", "c", "k">> :> <<"1", "5", ".", "0", "1", ".", "0", "2", ".", "0", "5">>) @@
    (<<"s", "h", "o", "u", "l", "d", "e", "r">> :> <<"1", "6", ".", "0", "2", ".", "0", "1", ".", "0", "0">>) @@ (<<"k", "n", "e", "e">> :> <<"1", "7", ".", "0", "5", ".", "0", "0", ".", "0", "0">>) @@
    (<<"h", "a", "n", "d">> :> <<"1", "6", ".", "0", "5", ".", "0", "0", ".", "0", "0">>) @@ (<<"f", "o", "o", "t">> :> <<"1", "7", ".", "0", "8", ".", "0", "0", ".", "0", "0">>) @@
    (<<"a", "r", "m">> :> <<"1", "6", ".", "0", "0", ".", "0", "0", ".", "0", "0">>) @@ (<<"l", "e", "g">> :> <<"1", "7", ".", "0", "0", ".", "0", "0", ".", "0", "0">>) @@
    (<<"h", "i", "p">> :> <<"1", "7", ".", "0", "3", ".", "0", "0", ".", "0", "0">>) @@ (<<"h", "e", "a", "d">> :> <<"1", "3", ".", "0", "0", ".", "0", "0", ".", "0", "0">>) @@
    (<<"f", "a", "c", "e">> :> <<"1", "1", ".", "0", "2", ".", "0", "1", ".", "0", "0">>) @@ (<<"c", "h", "e", "s", "t">> :> <<"0", "5", ".", "0", "0", ".", "0", "0", ".", "0", "0">>) @@
    (<<"a", "b", "d", "o", "m", "e", "n">> :> <<"0", "6", ".", "0", "0", ".", "0", "0", ".", "0", "0">>) @@ (<<"r", "i", "b">> :> <<"0", "5", ".", "0", "0", ".", "0", "0", ".", "0", "0">>)

\* standardize_impairments for one impairment, with no impairment codes
\* loaded: the description is the body part
standardize_impairment(imp) ==
    LET Code(normalized_body_part) ==
            IF normalized_body_part \in DOMAIN standard_body_part_codes
            THEN Some(standard_body_part_codes[normalized_body_part])
            ELSE None
    IN  [ body_part |-> imp.body_part, wpi |-> imp.wpi, pain_addon |-> imp.pain_addon,
          apportionment |-> imp.apportionment,
          impairment_code |-> Code(normalize_body_part(imp.body_part)) ]

RECURSIVE standardize_impairments(_)
standardize_impairments(impairments) ==
    IF impairments = <<>> THEN <<>>
    ELSE <<standardize_impairment(Head(impairments))>>
         \o standardize_impairments(Tail(impairments))

\* the key of an impairment in unique_impairments
impairment_key(imp) == <<normalize_body_part(imp.body_part), imp.wpi>>

\* unique_impairments[key] = imp, when overwrite or when the key is new.
\* unique is the dictionary as the list of its values in insertion order
PutImpairment(unique, imp, overwrite) ==
    LET same == {i \in DOMAIN unique : impairment_key(unique[i]) = impairment_key(imp)}
    IN  IF same = {} THEN Append(unique, imp)
        ELSE IF overwrite THEN [i \in DOMAIN unique |-> IF i \in same THEN imp ELSE unique[i]]
        ELSE unique

RECURSIVE PutImpairments(_, _, _)
PutImpairments(unique, impairments, overwrite) ==
    IF impairments = <<>> THEN unique
    ELSE PutImpairments(PutImpairment(unique, Head(impairments), overwrite),
                        Tail(impairments), overwrite)

\* the merge with the regex impairments taking precedence
merge_impairments_regex_first(ai_impairments, regex_impairments) ==
    standardize_impairments(
        PutImpairments(PutImpairments(<<>>, regex_impairments, TRUE), ai_impairments, FALSE))

merge_impairments(ai_impairments, regex_impairments) ==
    standardize_impairments(
        PutImpairments(PutImpairments(<<>>, ai_impairments, TRUE), regex_impairments, FALSE))

----------------------------------------------------------------------------
(* wc.py *)

\* f'{start_age}_to_{end_age}' for the values calculate_age_adjustment gives
\* start_age (end_age is start_age + 4)
RangeColumn(start_age) ==
    CASE start_age = 22 -> "22_to_26"
      [] start_age = 25 -> "25_to_29"
      [] start_age = 32 -> "32_to_36"
      [] start_age = 35 -> "35_to_39"
      [] start_age = 42 -> "42_to_46"
      [] start_age = 45 -> "45_to_49"
      [] start_age = 52 -> "52_to_56"
      [] start_age = 55 -> "55_to_59"
      [] start_age = 62 -> "62_to_66"

\* the age column calculate_age_adjustment reads
calculate_age_adjustment_column(age) ==
    IF age <= 21 THEN "21_and_under"
    ELSE IF age >= 62 THEN "62_and_over"
    ELSE LET start_age == (age \div 5) * 5
         IN  RangeColumn(IF start_age % 10 = 0 THEN start_age + 2 ELSE start_age)

\* calculate_age_adjustment: the value it returns; age_adjustments is the
\* table age_adjustment read from its CSV file
calculate_age_adjustment(pd_value, age) ==
    IF pd_value = 0 \/ age = 0 THEN pd_value
    ELSE LET rounded == 100 * RoundHalfEven(pd_value, 100)
             adjustment_row == {row \in age_adjustment : row["wpi_percent"] = rounded}
             age_column_ == calculate_age_adjustment_column(age)
             Value(row) == \* a column the table does not have is a KeyError
                           IF age_column_ \in DOMAIN row THEN row[age_column_] ELSE rounded
         IN  IF adjustment_row # {}
             THEN Value(CHOOSE row \in adjustment_row : TRUE)
             ELSE rounded

----------------------------------------------------------------------------
(* The calls *)

\* all lists over S of length 0..n
RECURSIVE ListsUpTo(_, _)
ListsUpTo(S, n) ==
    IF n = 0 THEN {<<>>}
    ELSE LET shorter == ListsUpTo(S, n - 1)
         IN  shorter \cup {Append(l, x) : l \in {m \in shorter : Len(m) = n - 1}, x \in S}

WeeksFns == {"calculate_payment_weeks", "app.calculate_payment_weeks",
             "PDF_Calculator.calculate_payment_weeks"}

\* the batches process_extracted_data is called with
Occupations == {<<"3", "8", "0", "H">>, <<"1", "1", "1", "c">>, <<"C", "a", "r", "p", "e", "n", "t", "e", "r">>, <<"S", "t", "o", "c", "k", "e", "r">>, <<"P", "i", "l", "o", "t">>}
Ages == {21, 45, 150}
\* the findings of a report: a body part and its WPI
Findings == {[body_part |-> <<"L", "u", "m", "b", "a", "r", " ", "S", "p", "i", "n", "e">>, wpi |-> 1000],
             [body_part |-> <<"R", "i", "g", "h", "t", " ", "S", "h", "o", "u", "l", "d", "e", "r">>, wpi |-> 2000]}
PainAddons == {200, 500}
Apportionments == {0, 3000, 10000}

Impairments ==
    {[body_part |-> f.body_part, wpi |-> f.wpi, pain_addon |-> p, apportionment |-> a]
        : f \in Findings, p \in PainAddons, a \in Apportionments}

\* impairments with a value outside its range: a negative pain add-on, and an
\* apportionment above 100%; each is rated in a batch of its own
EdgeImpairments ==
    {[body_part |-> f.body_part, wpi |-> f.wpi, pain_addon |-> -100, apportionment |-> 0]
        : f \in Findings}
    \cup {[body_part |-> f.body_part, wpi |-> f.wpi, pain_addon |-> 200, apportionment |-> 15000]
        : f \in Findings}

\* the impairment lists process_extracted_data is called with
Batches ==
    ListsUpTo(Impairments, MaxImpairments) \cup {<<imp>> : imp \in EdgeImpairments}

NoData == [age |-> 0, occupation |-> <<>>, impairments |-> <<>>]
NoArgs == <<>>

InitCombine ==
    /\ fn = "combine_wpi_values"
    /\ wpi_values \in ListsUpTo(WpiDomain, MaxLen)
    /\ total_pd = 0
    /\ data = NoData
    /\ args = NoArgs

InitWeeks ==
    /\ fn \in WeeksFns
    /\ wpi_values = <<>>
    /\ total_pd \in 0..MaxPd
    /\ data = NoData
    /\ args = NoArgs

InitProcess ==
    /\ fn = "process_extracted_data"
    /\ wpi_values = <<>>
    /\ total_pd = 0
    /\ data \in [age : Ages, occupation : Occupations, impairments : Batches]
    /\ args = NoArgs

\* the database lookups, called on their own
LookupAges == (-1)..MaxAge
\* percentages looked up: below the first row, on a row, between two rows,
\* on the last row and above it
RawWpis == {0, 50, 100, 1260, 100 * TableRows, 100 * TableRows + 100}
VariantLabels == {<<"H">>, <<"c">>, <<"K">>, <<"i", "d">>}
LookupGroups == {111, 360, 380, 999}
\* body parts of the upper and of the lower extremity
UpperExtremityParts == {<<"s", "h", "o", "u", "l", "d", "e", "r">>, <<"e", "l", "b", "o", "w">>, <<"w", "r", "i", "s", "t">>, <<"h", "a", "n", "d">>, <<"g", "r", "i", "p">>, <<"a", "r", "m">>}
LowerExtremityParts == {<<"k", "n", "e", "e">>, <<"a", "n", "k", "l", "e">>, <<"l", "e", "g">>}
ImpairmentCodes == {map_body_part_to_code(part) : part \in UpperExtremityParts \cup LowerExtremityParts} \cup {<<"W", "R", "I", "S", "T", "-", "R", "O", "M">>, <<"L", "E", "G", "-", "A", "M", "P", "U", "T">>, <<"L", "e", "f", "t", " ", "H", "a", "n", "d">>} \cup
                   {<<"S", "P", "I", "N", "E">>, <<"S", "H", "O", "U", "L", "D", "E", "R">>, <<"P", "E", "R", "I", "P", "H", "-", "U", "E">>, <<"1", "5", ".", "0", "3", ".", "0", "2", ".", "0", "5">>,
                    <<"L", "u", "m", "b", "a", "r", " ", "S", "p", "i", "n", "e">>, <<"R", "i", "g", "h", "t", " ", "S", "h", "o", "u", "l", "d", "e", "r">>, <<"L", "e", "f", "t", " ", "K", "n", "e", "e">>}
\* contents of occupational_adjustments: any of its first three rows
TableContents == SUBSET {row \in occupational_adjustments : row.rating_percent <= 300}

\* the texts get_occupation_group is called with
OccupationTexts ==
    { <<>>, <<"3", "8", "0", "H">>, <<"5", "A">>, <<"1", "2", "a">>, <<"0", "x">>, <<"S", "t", "o", "c", "k", "e", "r">>, <<"m", "a", "i", "l", " ", "s", "o", "r", "t", "e", "r">>,
      <<"3", "8", "0", "H", " ", "s", "t", "o", "c", "k", "e", "r">>, <<"C", "a", "r", "p", "e", "n", "t", "e", "r">>, <<"c", "a", "r", "p", "e", "n", "t", "e", "r", " ", "h", "e", "l", "p", "e", "r">>, <<"t", "h", "e", " ", "c", "l", "e", "r", "k">>,
      <<"a", "n", " ", "x", "y">>, <<"P", "i", "l", "o", "t">>, <<"c", "_", "e", "r", "k">>, <<"c", "l", "%", "k">>, <<"a", " ", "%">>, <<"_", "_", "_">>, <<" ">>,
      <<"o", "l", "d", " ", "t", "e", "a", "c", "h">>, <<"h", " ", "c", "l", "e", "r", "k", " ", "t", "e", "a", "c", "h", "e", "r">> }

InitOccupationLookup ==
    /\ fn = "get_occupation_group"
    /\ args \in [occupation : OccupationTexts]

InitAgeLookup ==
    /\ fn = "get_age_adjusted_wpi"
    /\ args \in [age : LookupAges, raw_wpi : RawWpis]

InitOccupationalLookup ==
    /\ fn = "get_occupational_adjusted_wpi"
    /\ args \in [group_num : {380}, variant_label : VariantLabels, base_wpi : RawWpis]

InitVariantLookup ==
    /\ fn = "get_variant_for_impairment"
    /\ args \in [group_num : LookupGroups, impairment_code : ImpairmentCodes]

InitRowLookup ==
    /\ fn = "occupational_adjustments row"
    /\ args \in [rows : TableContents, base_wpi : {0, 100, 250, 400}]

\* the impairments of the two extractions merge_impairments is called with
AiImpairments ==
    { [body_part |-> <<"L", "u", "m", "b", "a", "r", " ", "S", "p", "i", "n", "e">>, wpi |-> 800, pain_addon |-> 200, apportionment |-> 0],
      [body_part |-> <<"C", "e", "r", "v", "i", "c", "a", "l", " ", "S", "p", "i", "n", "e">>, wpi |-> 800, pain_addon |-> 100, apportionment |-> 0],
      [body_part |-> <<"C", "e", "r", "v", "i", "c", "a", "l", " ", "S", "p", "i", "n", "e">>, wpi |-> 500, pain_addon |-> 100, apportionment |-> 0],
      [body_part |-> <<"T", "r", "i", "g", "e", "m", "i", "n", "a", "l">>, wpi |-> 500, pain_addon |-> 200, apportionment |-> 0] }
RegexImpairments ==
    { [body_part |-> <<"L", "u", "m", "b", "a", "r", " ", "S", "p", "i", "n", "e">>, wpi |-> 800, pain_addon |-> 0, apportionment |-> 0],
      [body_part |-> <<"B", "a", "c", "k">>, wpi |-> 800, pain_addon |-> 0, apportionment |-> 0],
      [body_part |-> <<"N", "e", "c", "k">>, wpi |-> 800, pain_addon |-> 0, apportionment |-> 0],
      [body_part |-> <<"S", "h", "o", "u", "l", "d", "e", "r">>, wpi |-> 1000, pain_addon |-> 0, apportionment |-> 0] }

InitMerge ==
    /\ fn = "merge_impairments"
    /\ \E n \in 0..MaxExtracted :
          args \in [ai_impairments : [1..n -> AiImpairments],
                    regex_impairments : ListsUpTo(RegexImpairments, MaxExtracted - n)]

\* the sessions, and the CSV files found in sql_dir: all five, all but the
\* first, the first only
Sessions == 1..MaxSessions
CsvConfigs == {1..5, 2..5, {1}}

InitDatabase ==
    /\ fn = "init_database"
    /\ args = NoArgs
    /\ \E csv_exists \in CsvConfigs, csv_has_id \in BOOLEAN :
          db = [ csv_exists |-> csv_exists,
                 csv_has_id |-> csv_has_id,
                 tables |-> NoRows,
                 pending |-> [s \in Sessions |-> NoRows],
                 lock |-> 0,
                 loaded |-> FALSE,
                 sessions |-> [s \in Sessions |->
                                  [pc |-> "idle", table |-> 0, after_load |-> FALSE]] ]
    /\ wpi_values = <<>>
    /\ total_pd = 0
    /\ data = NoData

\* the calls of process_medical_reports: the extensions of the uploaded
\* files, the mode, whether there is a progress_callback, whether the text of
\* the PDF files exceeds 180000 characters, and the call that raises
UploadedFiles == UNION {[1..n -> {"pdf", "docx"}] : n \in 0..MaxFiles}

InitReport ==
    /\ fn = "process_medical_reports"
    /\ \E uploaded_files \in UploadedFiles, mode \in {"detailed", "raw"},
          progress_callback \in BOOLEAN, text \in {"fits", "large"},
          fault \in {<<"none", 1>>, <<"client", 1>>, <<"vector_store", 1>>,
                     <<"assistant", 1>>, <<"run", 1>>, <<"status", 1>>}
                    \cup {<<step, k>> : step \in {"write", "upload", "delete"},
                                        k \in 1..MaxFiles} :
          /\ fault[2] <= Max(Len(uploaded_files), 1)
          /\ args = [ uploaded_files |-> uploaded_files, mode |-> mode,
                      progress_callback |-> progress_callback, text |-> text,
                      fault |-> fault[1], fault_at |-> fault[2] ]
    /\ report = NewReport
    /\ db = None
    /\ wpi_values = <<>>
    /\ total_pd = 0
    /\ data = NoData

\* the calls of calculate_age_adjustment of wc.py
PdValues == {0, 1000, 2000, 2040, 100 * TableRows + 100}

InitAgeAdjustment ==
    /\ fn = "wc.calculate_age_adjustment"
    /\ args \in [pd_value : PdValues, age : LookupAges]

InitLookup ==
    /\ \/ InitOccupationLookup
       \/ InitMerge
       \/ InitAgeAdjustment
       \/ InitAgeLookup
       \/ InitOccupationalLookup
       \/ InitVariantLookup
       \/ InitRowLookup
    /\ wpi_values = <<>>
    /\ total_pd = 0
    /\ data = NoData

\* the calls of calculate_rating
RatingOccupations == {<<>>, <<"3", "8", "0", "H">>, <<"S", "t", "o", "c", "k", "e", "r">>, <<"T", "e", "a", "c", "h", "e", "r">>, <<"P", "i", "l", "o", "t">>}
RatedParts ==
    { [body_part |-> <<"L", "u", "m", "b", "a", "r", " ", "S", "p", "i", "n", "e">>, wpi |-> 1000, pain |-> None],
      [body_part |-> <<"L", "e", "f", "t", " ", "K", "n", "e", "e">>, wpi |-> 2000, pain |-> Some(500)],
      [body_part |-> <<"R", "i", "g", "h", "t", " ", "S", "h", "o", "u", "l", "d", "e", "r">>, wpi |-> -1000, pain |-> Some(-100)] }
RatingBodyParts ==
    {[kind |-> "str", value |-> text] : text \in {<<>>, <<"L", "e", "f", "t", " ", "K", "n", "e", "e">>}}
    \cup {[kind |-> "list", value |-> parts] : parts \in ListsUpTo(RatedParts, MaxImpairments)}
InjuryDates == {<<>>, <<"2", "0", "0", "4", "-", "0", "5", "-", "0", "6">>, <<"1", "9", "6", "0", "-", "0", "2", "-", "2", "9">>, <<"2", "0", "3", "0", "-", "1", "-", "5">>, <<"2", "0", "0", "4", "/", "0", "5", "/", "0", "6">>,
                <<"2", "0", "0", "5", "-", "0", "2", "-", "2", "9">>}
\* the year of the clock when calculate_rating is called
Years == {2025, 2026}

InitRating ==
    /\ fn = "calculate_rating"
    /\ args \in [occupation : RatingOccupations, bodypart : RatingBodyParts,
                 age_injury : InjuryDates, wpi : {1000}, pain : {0, 200},
                 now_year : Years]
    /\ wpi_values = <<>>
    /\ total_pd = 0
    /\ data = NoData

Init ==
    /\ pc = "call"
    /\ connection = "none"
    /\ combined = None
    /\ weeks = None
    /\ outcome = None
    /\ no_apportionment_details = <<>>
    /\ \/ InitCombine /\ db = None /\ report = None
       \/ InitWeeks /\ db = None /\ report = None
       \/ InitProcess /\ db = None /\ report = None
       \/ InitLookup /\ db = None /\ report = None
       \/ InitRating /\ db = None /\ report = None
       \/ InitDatabase /\ report = None
       \/ InitReport

ProcessExtractedData ==
    /\ pc = "call"
    /\ fn = "process_extracted_data"
    /\ LET run == process_extracted_data(data)
       IN  /\ outcome' = Some(run.outcome)
           /\ no_apportionment_details' = run.details
    /\ pc' = "return"
    /\ UNCHANGED <<fn, wpi_values, combined, total_pd, weeks, data, args, connection, db, report>>

CombineWpiValues ==
    /\ pc = "call"
    /\ fn = "combine_wpi_values"
    /\ combined' = Some(combine_wpi_values(wpi_values))
    /\ pc' = "return"
    /\ UNCHANGED <<fn, wpi_values, total_pd, weeks, data, outcome, no_apportionment_details, args,
                 connection, db, report>>

CalculatePaymentWeeks ==
    /\ pc = "call"
    /\ fn = "calculate_payment_weeks"
    /\ weeks' = Some(calculate_payment_weeks(total_pd))
    /\ pc' = "return"
    /\ UNCHANGED <<fn, wpi_values, combined, total_pd, data, outcome, no_apportionment_details, args,
                 connection, db, report>>

AppCalculatePaymentWeeks ==
    /\ pc = "call"
    /\ fn = "app.calculate_payment_weeks"
    /\ weeks' = Some(app_calculate_payment_weeks(total_pd))
    /\ pc' = "return"
    /\ UNCHANGED <<fn, wpi_values, combined, total_pd, data, outcome, no_apportionment_details, args,
                 connection, db, report>>

PdfCalculatorCalculatePaymentWeeks ==
    /\ pc = "call"
    /\ fn = "PDF_Calculator.calculate_payment_weeks"
    /\ weeks' = Some(pdf_calculator_calculate_payment_weeks(total_pd))
    /\ pc' = "return"
    /\ UNCHANGED <<fn, wpi_values, combined, total_pd, data, outcome, no_apportionment_details, args,
                 connection, db, report>>

GetOccupationGroup ==
    /\ pc = "call"
    /\ fn = "get_occupation_group"
    /\ outcome' = Some(get_occupation_group(args.occupation))
    /\ connection' = get_occupation_group_connection(args.occupation)
    /\ pc' = "return"
    /\ UNCHANGED <<fn, wpi_values, combined, total_pd, weeks, data, no_apportionment_details, args,
                 db, report>>

MergeImpairments ==
    /\ pc = "call"
    /\ fn = "merge_impairments"
    /\ outcome' = Some(merge_impairments(args.ai_impairments, args.regex_impairments))
    /\ pc' = "return"
    /\ UNCHANGED <<fn, wpi_values, combined, total_pd, weeks, data, no_apportionment_details, args,
                 connection, db, report>>

CalculateAgeAdjustment ==
    /\ pc = "call"
    /\ fn = "wc.calculate_age_adjustment"
    /\ outcome' = Some(calculate_age_adjustment(args.pd_value, args.age))
    /\ pc' = "return"
    /\ UNCHANGED <<fn, wpi_values, combined, total_pd, weeks, data, no_apportionment_details, args,
                 connection, db, report>>

GetAgeAdjustedWpi ==
    /\ pc = "call"
    /\ fn = "get_age_adjusted_wpi"
    /\ outcome' = Some(get_age_adjusted_wpi(args.age, args.raw_wpi))
    /\ connection' = get_age_adjusted_wpi_connection(args.age, args.raw_wpi)
    /\ pc' = "return"
    /\ UNCHANGED <<fn, wpi_values, combined, total_pd, weeks, data, no_apportionment_details, args,
                 db, report>>

GetOccupationalAdjustedWpi ==
    /\ pc = "call"
    /\ fn = "get_occupational_adjusted_wpi"
    /\ outcome' = Some(get_occupational_adjusted_wpi(args.group_num, args.variant_label,
                                                     args.base_wpi))
    /\ connection' = get_occupational_adjusted_wpi_connection(args.group_num, args.variant_label,
                                                               args.base_wpi)
    /\ pc' = "return"
    /\ UNCHANGED <<fn, wpi_values, combined, total_pd, weeks, data, no_apportionment_details, args,
                 db, report>>

GetVariantForImpairment ==
    /\ pc = "call"
    /\ fn = "get_variant_for_impairment"
    /\ outcome' = Some(get_variant_for_impairment(args.group_num, args.impairment_code))
    /\ connection' = get_variant_for_impairment_connection(args.group_num, args.impairment_code)
    /\ pc' = "return"
    /\ UNCHANGED <<fn, wpi_values, combined, total_pd, weeks, data, no_apportionment_details, args,
                 db, report>>

\* the two queries of get_occupational_adjusted_wpi that read the row, over a
\* table of the rows args.rows: outcome is the row fetched, or None
SelectOccupationalRow ==
    /\ pc = "call"
    /\ fn = "occupational_adjustments row"
    /\ outcome' = FloorRow(args.rows, "rating_percent", args.base_wpi)
    /\ pc' = "return"
    /\ UNCHANGED <<fn, wpi_values, combined, total_pd, weeks, data, no_apportionment_details, args,
                 connection, db, report>>

CalculateRating ==
    /\ pc = "call"
    /\ fn = "calculate_rating"
    /\ outcome' = Some(calculate_rating(args.occupation, args.bodypart, args.age_injury,
                                        args.wpi, args.pain, args.now_year))
    /\ pc' = "return"
    /\ UNCHANGED <<fn, wpi_values, combined, total_pd, weeks, data, no_apportionment_details, args,
                 connection, db, report>>

\* the steps of init_database in session s
SessionStep(s, next_db) ==
    /\ db' = next_db
    /\ UNCHANGED <<fn, pc, wpi_values, combined, total_pd, weeks, data, outcome,
                   no_apportionment_details, args, connection, report>>

InitDatabaseConnect ==
    /\ fn = "init_database"
    /\ \E s \in Sessions :
          /\ db.sessions[s].pc = "idle"
          /\ SessionStep(s, init_database_connect(db, s))

ImportCsvCount ==
    /\ fn = "init_database"
    /\ \E s \in Sessions :
          /\ db.sessions[s].pc = "count"
          /\ SessionStep(s, import_csv_count(db, s))

\* the write lock is free or the session's own
ImportCsvInsert ==
    /\ fn = "init_database"
    /\ \E s \in Sessions :
          /\ db.sessions[s].pc = "insert"
          /\ db.lock \in {0, s}
          /\ SessionStep(s, import_csv_insert(db, s))

\* the write lock is another session's for longer than the timeout of the
\* connection: sqlite3.OperationalError, database is locked
ImportCsvLocked ==
    /\ fn = "init_database"
    /\ \E s \in Sessions :
          /\ db.sessions[s].pc = "insert"
          /\ db.lock \notin {0, s}
          /\ SessionStep(s, init_database_raise(db, s))

InitDatabaseCommit ==
    /\ fn = "init_database"
    /\ \E s \in Sessions :
          /\ db.sessions[s].pc = "commit"
          /\ SessionStep(s, init_database_commit(db, s))

\* a lookup of a session whose init_database has returned: SELECTs only
SessionLookup ==
    /\ fn = "init_database"
    /\ \E s \in Sessions :
          /\ db.sessions[s].pc = "done"
          /\ SessionStep(s, [db EXCEPT !.sessions[s].pc = "looked"])

\* a step of process_medical_reports inside the try block
ReportStep(at, next_report) ==
    /\ pc = "call"
    /\ fn = "process_medical_reports"
    /\ report.at = at
    /\ report' = next_report
    /\ UNCHANGED <<fn, pc, wpi_values, combined, total_pd, weeks, data, outcome,
                   no_apportionment_details, args, connection, db>>

PmrInitClient == ReportStep("start", pmr_init_client(report, args))

PmrSaveFile == ReportStep("save", pmr_save_file(report, args))

PmrBranch == ReportStep("branch", pmr_branch(report, args))

PmrUpload == ReportStep("upload", pmr_upload(report, args))

PmrVectorStore == ReportStep("vector_store", pmr_vector_store(report, args))

PmrAssistant == ReportStep("assistant", pmr_assistant(report, args))

PmrRun == ReportStep("run", pmr_run(report, args))

\* the finally block, and the exit by return or by
\* Exception("Error processing medical report: ...")
PmrFinally ==
    /\ pc = "call"
    /\ fn = "process_medical_reports"
    /\ report.at = "finally"
    /\ report' = pmr_finally(report, args)
    /\ outcome' = Some(IF report.raised
                       THEN Raise("Exception", "Error processing medical report")
                       ELSE Ok(args.mode))
    /\ pc' = "return"
    /\ UNCHANGED <<fn, wpi_values, combined, total_pd, weeks, data,
                   no_apportionment_details, args, connection, db>>

Next ==
    \/ CombineWpiValues
    \/ CalculatePaymentWeeks
    \/ AppCalculatePaymentWeeks
    \/ PdfCalculatorCalculatePaymentWeeks
    \/ ProcessExtractedData
    \/ GetOccupationGroup
    \/ MergeImpairments
    \/ CalculateAgeAdjustment
    \/ GetAgeAdjustedWpi
    \/ GetOccupationalAdjustedWpi
    \/ GetVariantForImpairment
    \/ SelectOccupationalRow
    \/ CalculateRating
    \/ InitDatabaseConnect
    \/ ImportCsvCount
    \/ ImportCsvInsert
    \/ ImportCsvLocked
    \/ InitDatabaseCommit
    \/ SessionLookup
    \/ PmrInitClient
    \/ PmrSaveFile
    \/ PmrBranch
    \/ PmrUpload
    \/ PmrVectorStore
    \/ PmrAssistant
    \/ PmrRun
    \/ PmrFinally

Spec == Init /\ [][Next]_vars

----------------------------------------------------------------------------
(* Properties of combine_wpi_values *)

Returned(f) == pc = "return" /\ fn = f

\* C1: combine_wpi_values(L), for a list L of two or more percentages, equals
\* the closed form 100 * (1 - PROD(1 - v/100)) rounded once to 2 decimals.
C1_ClosedForm ==
    (Returned("combine_wpi_values") /\ Len(wpi_values) >= 2)
        => combined = Some(ClosedForm(wpi_values))

\* the lists that hold the elements of values in another order
Reorderings(values) ==
    {[i \in DOMAIN values |-> values[perm[i]]] : perm \in Permutations(DOMAIN values)}

\* C7: combine_wpi_values is order-independent: every permutation of the list
\* has the same combined value as the list.
C7_OrderIndependent ==
    Returned("combine_wpi_values")
        => \A other \in Reorderings(wpi_values) : combine_wpi_values(other) = combined[1]

\* a list of three percentages in ascending order has been combined
C7_Witness ==
    /\ Returned("combine_wpi_values")
    /\ Len(wpi_values) = 3
    /\ wpi_values[1] < wpi_values[2] /\ wpi_values[2] < wpi_values[3]
    /\ combined[1] > wpi_values[3]

\* the process_extracted_data call has returned a result dictionary
ReturnedResult ==
    Returned("process_extracted_data") /\ outcome[1].ok

\* C8: combine_wpi_values([]) is 0 and combine_wpi_values([x]) is x; a batch
\* of one impairment has an aggregate equal to its age_adjusted_wpi.
C8_EmptyAndSingle ==
    /\ (Returned("combine_wpi_values") /\ Len(wpi_values) = 0) => combined = Some(0)
    /\ (Returned("combine_wpi_values") /\ Len(wpi_values) = 1) => combined = Some(wpi_values[1])
    /\ (ReturnedResult /\ Len(data.impairments) = 1)
           => outcome[1].value.no_apportionment.final_pd_percent
                  = no_apportionment_details[1].age_adjusted_wpi

\* a batch of one impairment has been rated, with an aggregate above 0
C8_Witness ==
    /\ ReturnedResult
    /\ Len(data.impairments) = 1
    /\ outcome[1].value.no_apportionment.final_pd_percent > 0

\* C9: combination is associative: for a list <<a, b, c>>, combining a with b
\* first, or b with c first, gives the combined value of the three.
C9_Associative ==
    (Returned("combine_wpi_values") /\ Len(wpi_values) = 3)
        => LET a == wpi_values[1]
               b == wpi_values[2]
               c == wpi_values[3]
           IN  /\ combine_wpi_values(<<combine_wpi_values(<<a, b>>), c>>) = combined[1]
               /\ combine_wpi_values(<<a, combine_wpi_values(<<b, c>>)>>) = combined[1]

----------------------------------------------------------------------------
(* Properties of calculate_payment_weeks *)

\* the multiplier of each tier, a boundary belonging to the higher tier
TierMultiplier(p) ==
    CASE p < 1000 -> 4
      [] 1000 <= p /\ p < 2475 -> 5
      [] 2475 <= p /\ p < 2975 -> 6
      [] 2975 <= p /\ p < 4975 -> 7
      [] 4975 <= p /\ p < 6975 -> 8
      [] p >= 6975 -> 9

\* C10: every copy of calculate_payment_weeks returns p times the multiplier
\* of the tier of p.
C10_PaymentWeeks ==
    (pc = "return" /\ fn \in WeeksFns) => weeks = Some(total_pd * TierMultiplier(total_pd))

\* weeks(10) = 50: the boundary 10% is rated in the tier of multiplier 5
C10_Witness ==
    /\ Returned("calculate_payment_weeks")
    /\ total_pd = 1000
    /\ weeks = Some(5000)

----------------------------------------------------------------------------
(* Properties of process_extracted_data *)

\* the value each impairment contributes to the rating with apportionment
RECURSIVE apportioned_or_full_wpi_list(_)
apportioned_or_full_wpi_list(calculation_details) ==
    IF calculation_details = <<>> THEN <<>>
    ELSE LET detail == Head(calculation_details)
         IN  <<IF detail.apportionment > 0 THEN detail.apportioned_wpi[1]
               ELSE detail.age_adjusted_wpi>>
             \o apportioned_or_full_wpi_list(Tail(calculation_details))

\* C2: the with-apportionment aggregate is the combination over all the
\* impairments of the batch: apportioned_wpi for those with apportionment > 0
\* and the full age_adjusted_wpi for every other one.
C2_WithApportionmentOverAll ==
    (ReturnedResult /\ outcome[1].value.with_apportionment # None)
        => outcome[1].value.with_apportionment[1].final_pd_percent
               = combine_wpi_values(apportioned_or_full_wpi_list(no_apportionment_details))

AnyApportionment ==
    \E i \in DOMAIN data.impairments : data.impairments[i].apportionment > 0

\* C3: a with_apportionment result is returned exactly when at least one
\* impairment has apportionment > 0, and then it has its own aggregate, weeks
\* and payout.
C3_WithApportionmentPresence ==
    ReturnedResult
        => LET with == outcome[1].value.with_apportionment
           IN  /\ (with # None) <=> AnyApportionment
               /\ with # None =>
                     /\ with[1].weeks = calculate_payment_weeks(with[1].final_pd_percent)
                     /\ with[1].total_pd_dollars = with[1].weeks * (pd_weekly_rate \div 100)

\* the batch with every apportionment set to 0
WithoutApportionment(d) ==
    [d EXCEPT !.impairments =
        [i \in DOMAIN d.impairments |-> [d.impairments[i] EXCEPT !.apportionment = 0]]]

\* C4: the no_apportionment result does not depend on the apportionment of
\* any impairment: it is the no_apportionment result of the same batch
\* without any apportionment.
C4_NoApportionmentIndependent ==
    ReturnedResult
        => outcome[1].value.no_apportionment
               = process_extracted_data(WithoutApportionment(data)).outcome.value.no_apportionment

C6_VariantFromTable ==
    ReturnedResult
        => \A i \in DOMAIN no_apportionment_details :
              LET detail == no_apportionment_details[i]
              IN  Ok(detail.variant) =
                      get_variant_for_impairment(outcome[1].value.group_number,
                          map_body_part_to_code(data.impairments[i].body_part))

----------------------------------------------------------------------------
(* Properties of the database lookups *)

\* the bracket column of an age: 21 and under, 22 to 26, ..., 62 and over
Bracket(age) ==
    IF age <= 21 THEN AgeColumns[1]
    ELSE IF age >= 62 THEN AgeColumns[10]
    ELSE AgeColumns[2 + (age - 22) \div 5]

\* C11: get_age_adjusted_wpi selects the bracket column of the age for every
\* integer age (21 and under, 22 to 26, ..., 57 to 61, 62 and over), and the
\* selection fails for no age.
C11_AgeBracket ==
    Returned("get_age_adjusted_wpi")
        => outcome[1] = Ok(FloorRow(age_adjustment, "wpi_percent", args.raw_wpi)[1]
                               [Bracket(args.age)])

\* row is the floor match of target in rows: the row of the largest key that
\* is <= target, or the row of the smallest key when every key is above target
IsFloorMatch(rows, key, target, row) ==
    /\ row \in rows
    /\ IF \E other \in rows : other[key] <= target
       THEN /\ row[key] <= target
            /\ \A other \in rows : other[key] <= target => other[key] <= row[key]
       ELSE \A other \in rows : row[key] <= other[key]

BucketRow(group_num, impairment_code) ==
    LET table  == IF group_num >= 310 THEN variants_2 ELSE variants
        bucket == code_to_body_part(impairment_code)
        Row(bp) == FirstRow(table, {i \in DOMAIN table : table[i].body_part = bp})
    IN  IF Row(bucket) # None THEN Row(bucket)
        ELSE IF ContainsAny(Lower(bucket), ArmTerms) THEN Row(<<"A", "R", "M">>)
        ELSE IF ContainsAny(Lower(bucket), LegTerms) THEN Row(<<"L", "E", "G">>)
        ELSE None

\* no variant can be resolved: no row for the bucket, or no letter in the
\* column of the group
Unresolved(group_num, impairment_code) ==
    LET row == BucketRow(group_num, impairment_code)
    IN  \/ row = None
        \/ group_num \notin DOMAIN row[1].group
        \/ row[1].group[group_num] = <<>>

\* C17: get_variant_for_impairment fails with an error whenever no variant
\* can be resolved for (group, impairment code); it never returns a default
\* letter on its own.
C17_VariantNotFound ==
    (Returned("get_variant_for_impairment")
        /\ Unresolved(args.group_num, args.impairment_code))
        => ~outcome[1].ok

----------------------------------------------------------------------------
(* Properties of the values process_extracted_data takes from its input *)

\* C14: the apportionment process_extracted_data applies lies in [0, 100], so
\* that 0 <= apportioned_wpi <= age_adjusted_wpi for every impairment.
C14_ApportionmentClamped ==
    ReturnedResult
        => \A i \in DOMAIN no_apportionment_details :
              LET detail == no_apportionment_details[i]
              IN  /\ 0 <= detail.apportionment /\ detail.apportionment <= 10000
                  /\ detail.apportioned_wpi # None =>
                         /\ 0 <= detail.apportioned_wpi[1]
                         /\ detail.apportioned_wpi[1] <= detail.age_adjusted_wpi

\* the pain add-on limited to the range 0..3
Clamped(pain) == Max(0, Min(pain, 300))

\* calculate_rating has returned a rating
RatingSuccess ==
    Returned("calculate_rating") /\ outcome[1].status = "success"

\* the pain value given for the i-th body part of the calculate_rating call
GivenPain(i) ==
    IF args.bodypart.kind = "list" /\ args.bodypart.value[i].pain # None
    THEN args.bodypart.value[i].pain[1]
    ELSE args.pain

\* the WPI given for the i-th body part, without its sign
GivenWpi(i) ==
    LET given == IF args.bodypart.kind = "list" THEN args.bodypart.value[i].wpi ELSE args.wpi
    IN  IF given < 0 THEN -given ELSE given

\* C13: the pain value process_extracted_data and calculate_rating add to
\* the wpi of an impairment is the pain add-on given, limited to [0, 3]: 3
\* for a value above 3 and 0 for a value below 0.
C13_PainClamped ==
    /\ ReturnedResult =>
           \A i \in DOMAIN no_apportionment_details :
              LET detail == no_apportionment_details[i]
              IN  /\ detail.pain_addon = Clamped(data.impairments[i].pain_addon)
                  /\ detail.base_wpi = detail.original_wpi + detail.pain_addon
    /\ RatingSuccess =>
           \A i \in DOMAIN outcome[1].details :
              outcome[1].details[i].base_value = GivenWpi(i) + Clamped(GivenPain(i))

\* C20: an empty impairment list is rejected: process_extracted_data and
\* calculate_rating each produce an error, and no rating, when given no
\* impairments.
C20_EmptyListRejected ==
    /\ (Returned("process_extracted_data") /\ data.impairments = <<>>) => ~outcome[1].ok
    /\ (Returned("calculate_rating") /\ args.bodypart.value = <<>>)
           => outcome[1].status = "error"

----------------------------------------------------------------------------
(* Properties of the failure handling of the two entry points *)

\* a lookup made for the details entry of calculate_rating failed: the
\* variant, the occupational adjustment or the age adjustment
RatingLookupFailed(detail) ==
    \/ ~get_variant_for_impairment(detail.group_number, detail.body_part).ok
    \/ ~get_occupational_adjusted_wpi(detail.group_number, detail.variant,
                                      detail.adjusted_value).ok
    \/ ~get_age_adjusted_wpi(detail.age, detail.occupant_adjusted_wpi).ok

\* the calculate_rating call has returned a rating in which a default stands
\* for a failed lookup
RatingSubstituted ==
    /\ RatingSuccess
    /\ \E i \in DOMAIN outcome[1].details : RatingLookupFailed(outcome[1].details[i])

\* the process_extracted_data call has returned a result in which the default
\* variant stands for a variant that could not be resolved
ResultSubstituted ==
    /\ ReturnedResult
    /\ occupation_variant(data.occupation) = None
    /\ \E i \in DOMAIN no_apportionment_details :
          Unresolved(no_apportionment_details[i].group_number,
                     no_apportionment_details[i].impairment_code)

\* C15: an entry point applies one failure policy: when it replaces a failed
\* lookup by a default and goes on, it aborts on no lookup failure, so no
\* call with the same impairments is aborted by a failed occupation or age
\* lookup.
C15_OneFailurePolicy ==
    /\ RatingSubstituted =>
           \A occupation \in RatingOccupations \ {<<>>} :
              calculate_rating(occupation, args.bodypart, args.age_injury, args.wpi,
                               args.pain, args.now_year).status = "success"
    /\ ResultSubstituted =>
           \A occupation \in Occupations, age \in Ages :
              process_extracted_data([data EXCEPT !.occupation = occupation,
                                                  !.age = age]).outcome.ok

\* the fields of a details entry of calculate_rating that hold the values of
\* the computation
ValueFields ==
    {"body_part", "group_number", "variant", "base_value", "adjusted_value",
     "occupant_adjusted_wpi", "age", "final_value"}

\* C16: when calculate_rating puts a default in the place of a failed lookup,
\* the details entry of the body part has a field, besides the values of the
\* computation, that records the substitution.
C16_SubstitutionRecorded ==
    RatingSuccess =>
        \A i \in DOMAIN outcome[1].details :
           RatingLookupFailed(outcome[1].details[i])
               => DOMAIN outcome[1].details[i] \ ValueFields # {}

\* C18: the result of calculate_rating depends on its arguments and the
\* tables only: the call made in any other year returns the same result.
C18_SameResultAnyYear ==
    Returned("calculate_rating") =>
        \A year \in Years :
           calculate_rating(args.occupation, args.bodypart, args.age_injury, args.wpi,
                            args.pain, year) = outcome[1]

\* the arguments of the calculate_rating call pass the checks made before the
\* lookups
ValidArguments ==
    /\ args.occupation # <<>>
    /\ args.bodypart.value # <<>>
    /\ args.age_injury # <<>>
    /\ strptime(args.age_injury).ok

\* C19: calculate_rating answers every failure with status 'error' and the
\* message of the failure: a failed check of the arguments, a failed
\* occupation lookup, and a failed lookup of a body part; status 'success'
\* is the answer of a batch whose lookups all succeeded.
C19_FailureIsError ==
    Returned("calculate_rating") =>
        /\ outcome[1].status \in {"success", "error"}
        /\ ~ValidArguments => outcome[1].status = "error"
        /\ (ValidArguments /\ ~get_occupation_group(args.occupation).ok)
               => outcome[1] = [status |-> "error",
                                message |-> get_occupation_group(args.occupation).message]
        /\ outcome[1].status = "success" =>
               \A i \in DOMAIN outcome[1].details :
                  ~RatingLookupFailed(outcome[1].details[i])

----------------------------------------------------------------------------
(* Properties of get_occupation_group *)

\* text has the form <digits><letter>
EncodedGroup(text) ==
    /\ Len(text) >= 2
    /\ IsDigit(SubSeq(text, 1, Len(text) - 1))
    /\ IsAlpha(<<text[Len(text)]>>)

\* the titles that have text as a substring, without regard to case
TitlesWith(text) ==
    {i \in DOMAIN occupations :
        Contains(Lower(occupations[i].occupation_title), Lower(text))}

\* the words of text longer than 2 characters that are part of a title
MatchingWords(text) ==
    LET words == Split(Lower(text))
    IN  {k \in DOMAIN words : Len(words[k]) > 2 /\ TitlesWith(words[k]) # {}}

\* C21: get_occupation_group takes the first of four steps that succeeds:
\* the digits of a text <digits><letter>; 360 for a text with "stocker" or
\* "sorter"; the title that has the whole text as a substring; the title that
\* has the first matching word longer than 2 characters.  It raises exactly
\* when all four fail.
C21_ResolutionOrder ==
    Returned("get_occupation_group") =>
        LET text  == args.occupation
            words == Split(Lower(text))
            first == CHOOSE k \in MatchingWords(text) : \A j \in MatchingWords(text) : k <= j
        IN  IF EncodedGroup(text)
            THEN outcome[1] = Ok(ToInt(SubSeq(text, 1, Len(text) - 1)))
            ELSE IF ContainsAny(Lower(text), {<<"s", "t", "o", "c", "k", "e", "r">>, <<"s", "o", "r", "t", "e", "r">>})
            THEN outcome[1] = Ok(360)
            ELSE IF TitlesWith(text) # {}
            THEN outcome[1].ok /\ \E i \in TitlesWith(text) :
                                     outcome[1].value = occupations[i].group_number
            ELSE IF MatchingWords(text) # {}
            THEN outcome[1].ok /\ \E i \in TitlesWith(words[first]) :
                                     outcome[1].value = occupations[i].group_number
            ELSE ~outcome[1].ok

----------------------------------------------------------------------------
(* Properties of the ARM / LEG retry of get_variant_for_impairment *)

\* the bucket of the impairment code names a part of the arm, of the leg
ImpliesArm(impairment_code) ==
    ContainsAny(Lower(code_to_body_part(impairment_code)), ArmTerms)
ImpliesLeg(impairment_code) ==
    ~ImpliesArm(impairment_code)
        /\ ContainsAny(Lower(code_to_body_part(impairment_code)), LegTerms)

\* the letter of the row of body_part in the column of the group; the empty
\* text when there is no such row, column or letter
Letter(group_num, body_part) ==
    LET table == IF group_num >= 310 THEN variants_2 ELSE variants
        row   == FirstRow(table, {i \in DOMAIN table : table[i].body_part = body_part})
    IN  IF row # None /\ group_num \in DOMAIN row[1].group
        THEN row[1].group[group_num] ELSE <<>>

\* the variants table of the group has a row of body_part
HasRow(group_num, body_part) ==
    LET table == IF group_num >= 310 THEN variants_2 ELSE variants
    IN  \E i \in DOMAIN table : table[i].body_part = body_part

\* C24: when the matched row has no letter in the column of the group and
\* the code implies an extremity, get_variant_for_impairment returns the
\* letter of the ARM (LEG) row for the group when that letter is not empty:
\* the retry runs on the open connection.
C24_RetryOnEmptyLetter ==
    (/\ Returned("get_variant_for_impairment")
     /\ HasRow(args.group_num, code_to_body_part(args.impairment_code))
     /\ Letter(args.group_num, code_to_body_part(args.impairment_code)) = <<>>)
        => /\ (ImpliesArm(args.impairment_code) /\ Letter(args.group_num, <<"A", "R", "M">>) # <<>>)
                  => outcome[1] = Ok(Upper(Letter(args.group_num, <<"A", "R", "M">>)))
           /\ (ImpliesLeg(args.impairment_code) /\ Letter(args.group_num, <<"L", "E", "G">>) # <<>>)
                  => outcome[1] = Ok(Upper(Letter(args.group_num, <<"L", "E", "G">>)))

\* the codes map_body_part_to_code gives the parts of the upper, of the lower
\* extremity
UpperExtremityCodes == {map_body_part_to_code(part) : part \in UpperExtremityParts}
LowerExtremityCodes == {map_body_part_to_code(part) : part \in LowerExtremityParts}

\* C25: for a code map_body_part_to_code gives a part of the upper (lower)
\* extremity and no row of that code, get_variant_for_impairment goes on with
\* the ARM (LEG) row and does not end in the no-match outcome.
C25_ExtremityCodeRetries ==
    (/\ Returned("get_variant_for_impairment")
     /\ ~HasRow(args.group_num, code_to_body_part(args.impairment_code)))
        => /\ (args.impairment_code \in UpperExtremityCodes
                   /\ Letter(args.group_num, <<"A", "R", "M">>) # <<>>)
                  => outcome[1] = Ok(Upper(Letter(args.group_num, <<"A", "R", "M">>)))
           /\ (args.impairment_code \in LowerExtremityCodes
                   /\ Letter(args.group_num, <<"L", "E", "G">>) # <<>>)
                  => outcome[1] = Ok(Upper(Letter(args.group_num, <<"L", "E", "G">>)))

----------------------------------------------------------------------------
(* Properties of calculate_age_adjustment of wc.py *)

\* C30: for every age from 1 to 100, calculate_age_adjustment reads the age
\* column get_age_adjusted_wpi reads: the column of the ranges up to 21,
\* 22 to 26, ..., 57 to 61, 62 and over.
C30_SameAgeColumn ==
    (/\ Returned("wc.calculate_age_adjustment")
     /\ 1 <= args.age /\ args.age <= 100
     /\ \E row \in age_adjustment : row["wpi_percent"] = args.pd_value)
        => /\ calculate_age_adjustment_column(args.age) = age_column(args.age)[1]
           /\ calculate_age_adjustment_column(args.age) = Bracket(args.age)
           /\ Ok(outcome[1]) = get_age_adjusted_wpi(args.age, args.pd_value)

----------------------------------------------------------------------------
(* Properties of merge_impairments *)

\* the impairments of a list
Elements(list) == {list[i] : i \in DOMAIN list}

\* entry has the values of the impairment imp
HasValuesOf(entry, imp) ==
    /\ entry.body_part = imp.body_part
    /\ entry.wpi = imp.wpi
    /\ entry.pain_addon = imp.pain_addon
    /\ entry.apportionment = imp.apportionment

\* C23: merge_impairments(ai, regex) has at most one entry for a key
\* (normalized body part, WPI), has an entry for every key of either list, and
\* for a key of the AI list the entry has the values of an AI impairment.
C23_MergeByKey ==
    Returned("merge_impairments") =>
        LET merged == outcome[1]
            ai     == Elements(args.ai_impairments)
            regex  == Elements(args.regex_impairments)
        IN  /\ \A i, j \in DOMAIN merged :
                  impairment_key(merged[i]) = impairment_key(merged[j]) => i = j
            /\ \A imp \in ai \cup regex :
                  \E i \in DOMAIN merged : impairment_key(merged[i]) = impairment_key(imp)
            /\ \A i \in DOMAIN merged :
                  IF \E imp \in ai : impairment_key(imp) = impairment_key(merged[i])
                  THEN \E imp \in ai : /\ impairment_key(imp) = impairment_key(merged[i])
                                       /\ HasValuesOf(merged[i], imp)
                  ELSE \E imp \in regex : HasValuesOf(merged[i], imp)

\* "Lumbar Spine" 8% with pain add-on 2 from the AI and "Back" 8% with pain
\* add-on 0 from the regex have been merged into the AI entry
C23_Witness ==
    /\ Returned("merge_impairments")
    /\ args.ai_impairments = <<[body_part |-> <<"L", "u", "m", "b", "a", "r", " ", "S", "p", "i", "n", "e">>, wpi |-> 800, pain_addon |-> 200, apportionment |-> 0]>>
    /\ args.regex_impairments = <<[body_part |-> <<"B", "a", "c", "k">>, wpi |-> 800, pain_addon |-> 0, apportionment |-> 0],
                                  [body_part |-> <<"S", "h", "o", "u", "l", "d", "e", "r">>, wpi |-> 1000, pain_addon |-> 0, apportionment |-> 0]>>
    /\ Len(outcome[1]) = 2
    /\ outcome[1][1].body_part = <<"L", "u", "m", "b", "a", "r", " ", "S", "p", "i", "n", "e">> /\ outcome[1][1].pain_addon = 200
    /\ outcome[1][2].body_part = <<"S", "h", "o", "u", "l", "d", "e", "r">>

\* the body regions of which the body part is a synonym
Regions(body_part) ==
    {i \in DOMAIN body_part_synonyms : Lower(body_part) \in body_part_synonyms[i].synonyms}

\* the two body parts are synonyms of each other
Synonyms(a, b) == Lower(a) = Lower(b) \/ Regions(a) \cap Regions(b) # {}

\* C26: two impairments given to merge_impairments whose body parts are not
\* synonyms of each other are both in the merged list, each as an entry of
\* its body region and WPI, also when their WPI values are equal.
C26_RegionsKeptApart ==
    Returned("merge_impairments") =>
        \A x, y \in Elements(args.ai_impairments) \cup Elements(args.regex_impairments) :
           ~Synonyms(x.body_part, y.body_part) =>
               \E i, j \in DOMAIN outcome[1] :
                  /\ i # j
                  /\ Synonyms(outcome[1][i].body_part, x.body_part) /\ outcome[1][i].wpi = x.wpi
                  /\ Synonyms(outcome[1][j].body_part, y.body_part) /\ outcome[1][j].wpi = y.wpi

----------------------------------------------------------------------------
(* Properties of the connections of the lookups *)

LookupFns == {"get_occupation_group", "get_variant_for_impairment",
              "get_occupational_adjusted_wpi", "get_age_adjusted_wpi"}

\* C27: each lookup of utils/database.py has closed the connection it
\* opened when it exits, by return or by raise.
C27_ConnectionClosed ==
    (pc = "return" /\ fn \in LookupFns) => connection # "open"

\* session s called init_database before any call of it had returned
BeganBeforeLoad(s) ==
    db.sessions[s].pc # "idle" /\ ~db.sessions[s].after_load

\* C22: once a call of init_database has returned, the steps of the calls of
\* init_database begun afterwards and of the lookups leave the rows of the
\* five reference tables as they are
C22_ImmutableAfterLoad ==
    [][(/\ fn = "init_database"
        /\ db.loaded
        /\ \A s \in Sessions : BeganBeforeLoad(s) => db'.sessions[s] = db.sessions[s])
       => db'.tables = db.tables]_vars

\* a call of init_database begun after the load has returned, and its
\* session has looked a value up, with the rows of the CSV files in the tables
C22_Witness ==
    /\ fn = "init_database"
    /\ \E s \in Sessions :
          /\ db.sessions[s].after_load
          /\ db.sessions[s].pc = "looked"
    /\ \A t \in db.csv_exists : db.tables[t] = CsvRowIds

\* the number of rows of the table that hold row id of the CSV file
Copies(rows, id) == Cardinality({i \in DOMAIN rows : rows[i] = id})

\* C28: whatever the interleaving of the sessions that run init_database on
\* an empty database, no table holds a row of its CSV file twice, and once a
\* call has returned every table holds the rows of its CSV file
C28_LoadedOnce ==
    fn = "init_database" =>
        \A t \in db.csv_exists :
            /\ \A j \in DOMAIN CsvRowIds : Copies(db.tables[t], CsvRowIds[j]) <= 1
            /\ db.loaded => db.tables[t] = CsvRowIds

\* C29: when process_medical_reports has exited, by return or by exception,
\* no temporary file of the call is left on the disk, no file of the call is
\* left at OpenAI, and 100 is the last progress value reported
C29_CleanExit ==
    Returned("process_medical_reports") =>
        /\ report.disk = {}
        /\ report.remote = {}
        /\ args.progress_callback =>
              /\ report.progress # <<>>
              /\ report.progress[Len(report.progress)] = 100

====
